---- MODULE Spec2Model ----
(***************************************************************************)
(* Caching and fallback layer of water-services-mcp                        *)
(* (src/src/services/cache.ts, class CacheService) together with the       *)
(* upstream client the tools hand to it (USGSApiService).                  *)
(*                                                                         *)
(* Instants are whole seconds since the Unix epoch: TLC integers are 32    *)
(* bits wide and cannot hold an epoch time in milliseconds.  Every         *)
(* comparison the code makes in milliseconds is written here in the        *)
(* equivalent form over whole seconds; the places are marked.              *)
(* Strings the code inspects character by character (identities, header    *)
(* values) are sequences of one-character strings.                         *)
(***************************************************************************)
EXTENDS Integers, Sequences, FiniteSets, TLC

----------------------------------------------------------------------------
(* Generic helpers *)

Min(a, b) == IF a < b THEN a ELSE b

Max(a, b) == IF a > b THEN a ELSE b

\* The value standing for JavaScript's undefined / an absent option.
Undefined == "undefined"

----------------------------------------------------------------------------
(* Date: toISOString, Date parsing and parseInt of an ISO string *)

SecondsPerDay == 86400

\* Proleptic Gregorian calendar date of a day number (days since 1970-01-01),
\* computed in steps: from the year y0 that begins in March, the month m and
\* the day d; from the day of that year doy and its month index mp; from the
\* 400-year era, the day of the era doe and the year of the era yoe.
CivilYMD(y0, m, d) == [Y |-> y0 + (IF m <= 2 THEN 1 ELSE 0), Mo |-> m, D |-> d]

CivilMonth(y0, doy, mp) ==
    CivilYMD(y0, IF mp < 10 THEN mp + 3 ELSE mp - 9, doy - (153 * mp + 2) \div 5 + 1)

CivilYear(era, doe, yoe) ==
    CivilMonth(yoe + era * 400,
               doe - (365 * yoe + yoe \div 4 - yoe \div 100),
               (5 * (doe - (365 * yoe + yoe \div 4 - yoe \div 100)) + 2) \div 153)

CivilEra(z, era) ==
    CivilYear(era, z - era * 146097,
              ((z - era * 146097) - (z - era * 146097) \div 1460
                  + (z - era * 146097) \div 36524
                  - (z - era * 146097) \div 146096) \div 365)

CivilFromDays(days) == CivilEra(days + 719468, (days + 719468) \div 146097)

\* Day number of a calendar date.
DaysFromCivil(y, m, d) ==
    LET yy   == IF m <= 2 THEN y - 1 ELSE y
        era  == yy \div 400
        yoe  == yy - era * 400
        doy  == (153 * (IF m > 2 THEN m - 3 ELSE m + 9) + 2) \div 5 + d - 1
        doe  == yoe * 365 + yoe \div 4 - yoe \div 100 + doy
    IN  era * 146097 + doe - 719468

\* new Date(t).toISOString(): "YYYY-MM-DDTHH:MM:SS.000Z", kept as its fields.
ToISOString(t) ==
    LET c   == CivilFromDays(t \div SecondsPerDay)
        sod == t % SecondsPerDay
    IN  [Y |-> c.Y, Mo |-> c.Mo, D |-> c.D,
         h |-> sod \div 3600, mi |-> (sod % 3600) \div 60, s |-> sod % 60]

\* new Date(iso).getTime(), in seconds.
DateParse(iso) ==
    DaysFromCivil(iso.Y, iso.Mo, iso.D) * SecondsPerDay
        + iso.h * 3600 + iso.mi * 60 + iso.s

\* parseInt(iso): the leading run of digits of "YYYY-MM-..." is the year.
ParseInt(iso) == iso.Y

----------------------------------------------------------------------------
(* Characters *)

Ascii ==
    << " ", "!", "dquote", "#", "$", "%", "&", "'", "lparen", ")", "star", "+", ",", "-",
       ".", "/", "0", "1", "2", "3", "4", "5", "6", "7", "8", "9", ":", ";",
       "<", "=", ">", "?", "@", "A", "B", "C", "D", "E", "F", "G", "H", "I",
       "J", "K", "L", "M", "N", "O", "P", "Q", "R", "S", "T", "U", "V", "W",
       "X", "Y", "Z", "[", "backslash", "]", "^", "_", "backtick", "a", "b", "c", "d", "e",
       "f", "g", "h", "i", "j", "k", "l", "m", "n", "o", "p", "q", "r", "s",
       "t", "u", "v", "w", "x", "y", "z", "{", "|", "}", "~" >>

\* str.charCodeAt(i) of a printable ASCII character.
CharCode(c) == 31 + (CHOOSE i \in 1..Len(Ascii) : Ascii[i] = c)

Digits == {"0", "1", "2", "3", "4", "5", "6", "7", "8", "9"}

Base36Chars ==
    << "0", "1", "2", "3", "4", "5", "6", "7", "8", "9", "a", "b", "c", "d",
       "e", "f", "g", "h", "i", "j", "k", "l", "m", "n", "o", "p", "q", "r",
       "s", "t", "u", "v", "w", "x", "y", "z" >>

\* n.toString(36) for n >= 0.
RECURSIVE ToString36(_)
ToString36(n) ==
    IF n < 36 THEN << Base36Chars[n + 1] >>
    ELSE Append(ToString36(n \div 36), Base36Chars[(n % 36) + 1])

\* One round of the loop of hashString on the 32-bit hash held as two
\* 16-bit halves: hash = ((hash << 5) - hash) + char; hash = hash & hash.
HashStep(h, code) ==
    LET lo == h.lo * 31 + code
        hi == h.hi * 31 + lo \div 65536
    IN  [hi |-> hi % 65536, lo |-> lo % 65536]

\* The loop of hashString from character i on.  The test on next.lo always
\* holds; it makes each round be evaluated before the next one starts.
RECURSIVE HashLoop(_, _, _)
HashLoop(str, i, h) ==
    IF i > Len(str) THEN h
    ELSE LET next == HashStep(h, CharCode(str[i]))
         IN  IF next.lo >= 0 THEN HashLoop(str, i + 1, next) ELSE next

\* hashString(str): Math.abs(hash).toString(36).substring(0, 8).
hashString(str) ==
    LET h   == HashLoop(str, 1, [hi |-> 0, lo |-> 0])
        s36 == IF h.hi = 32768 /\ h.lo = 0
                  THEN << "z", "i", "k", "0", "z", "k" >>      \* |-2^31|
               ELSE IF h.hi >= 32768
                  THEN ToString36(0 - ((h.hi - 65536) * 65536 + h.lo))
               ELSE ToString36(h.hi * 65536 + h.lo)
    IN  SubSeq(s36, 1, Min(8, Len(s36)))

----------------------------------------------------------------------------
(* Strings inspected character by character *)

\* str.toLowerCase()
LowerOf(c) ==
    IF CharCode(c) >= 65 /\ CharCode(c) <= 90 THEN Ascii[CharCode(c) + 32 - 31]
    ELSE c

ToLowerCase(str) == [i \in 1..Len(str) |-> LowerOf(str[i])]

\* str.includes(sub)
Includes(str, sub) ==
    \E i \in 0..(Len(str) - Len(sub)) :
        \A j \in 1..Len(sub) : str[i + j] = sub[j]

\* Does str match /<lit>(\d+)/ : the literal followed by at least one digit.
MatchesLitDigits(str, lit) ==
    \E i \in 0..(Len(str) - Len(lit) - 1) :
        /\ \A j \in 1..Len(lit) : str[i + j] = lit[j]
        /\ str[i + Len(lit) + 1] \in Digits

\* Leftmost position (0-based) at which /<lit>(\d+)/ matches.
MatchPos(str, lit) ==
    CHOOSE i \in 0..(Len(str) - Len(lit) - 1) :
        /\ \A j \in 1..Len(lit) : str[i + j] = lit[j]
        /\ str[i + Len(lit) + 1] \in Digits
        /\ \A k \in 0..(i - 1) :
              ~ (/\ \A j \in 1..Len(lit) : str[k + j] = lit[j]
                 /\ str[k + Len(lit) + 1] \in Digits)

\* The longest run of digits of str starting at position p (1-based).
RECURSIVE DigitRun(_, _)
DigitRun(str, p) ==
    IF p > Len(str) \/ str[p] \notin Digits THEN << >>
    ELSE << str[p] >> \o DigitRun(str, p + 1)

\* match[1] of str.match(/<lit>(\d+)/)
Group1(str, lit) == DigitRun(str, MatchPos(str, lit) + Len(lit) + 1)

NoCache == << "n", "o", "-", "c", "a", "c", "h", "e" >>
NoStore == << "n", "o", "-", "s", "t", "o", "r", "e" >>
MaxAge0 == << "m", "a", "x", "-", "a", "g", "e", "=", "0" >>
TruthyValues == { << "t", "r", "u", "e" >>, << "1" >>, << "y", "e", "s" >> }
SitesEq == << "s", "i", "t", "e", "s", "=" >>
ParameterCdEq == << "p", "a", "r", "a", "m", "e", "t", "e", "r", "C", "d", "=" >>
GageHeightCode == << "0", "0", "0", "6", "5" >>
DischargeCode == << "0", "0", "0", "6", "0" >>

----------------------------------------------------------------------------
(* Identities and options of the calls that are explored *)

\* A USGS request URL carrying a station and a parameter code.
UrlStation == << "s", "i", "t", "e", "s", "=", "0", "1", "6", "4", "7", "6", "0", "0", "&", "p", "a", "r", "a", "m", "e", "t", "e", "r", "C", "d", "=", "0", "0", "0", "6", "5" >>

\* The identity the water-level tool passes to the cache layer.
UrlTool == << "c", "u", "r", "r", "e", "n", "t", "-", "w", "a", "t", "e", "r", "-", "l", "e", "v", "e", "l" >>

URLs == {UrlStation, UrlTool}

\* The identities the tools pass to the cache layer for the current reading
\* (1), the 7-day series (2) and the 90-minute series (3).
ToolUrl(tool, category) ==
    IF tool = "getPotomacGageDepth"
       THEN CASE category = 1 -> UrlTool
              [] category = 2 -> << "h", "i", "s", "t", "o", "r", "i", "c", "a", "l", "-", "w", "a", "t", "e", "r", "-", "l", "e", "v", "e", "l" >>
              [] OTHER -> << "9", "0", "-", "m", "i", "n", "u", "t", "e", "-", "w", "a", "t", "e", "r", "-", "l", "e", "v", "e", "l" >>
    ELSE CASE category = 1 -> << "c", "u", "r", "r", "e", "n", "t", "-", "f", "l", "o", "w", "-", "r", "a", "t", "e" >>
           [] category = 2 -> << "h", "i", "s", "t", "o", "r", "i", "c", "a", "l", "-", "f", "l", "o", "w", "-", "r", "a", "t", "e" >>
           [] OTHER -> << "9", "0", "-", "m", "i", "n", "u", "t", "e", "-", "f", "l", "o", "w", "-", "r", "a", "t", "e" >>

ToolNames == {"getPotomacGageDepth", "getPotomacFlow"}

Retrievals == {1, 2, 3}

ToolUrls == { ToolUrl(tool, category) : tool \in ToolNames, category \in Retrievals }

\* Request headers as extractCacheHeaders builds them; << >> is an absent one.
NoHeaders ==
    [cache_control |-> << >>, pragma |-> << >>,
     x_refresh_cache |-> << >>, x_force_refresh |-> << >>]

HeaderChoices ==
    { NoHeaders,
      [NoHeaders EXCEPT !.cache_control = << "N", "o", "-", "C", "a", "c", "h", "e" >>],
      [NoHeaders EXCEPT !.cache_control = << "m", "a", "x", "-", "a", "g", "e", "=", "3", "0", "0" >>] }

----------------------------------------------------------------------------
(* CacheService: configuration *)

maxLogEntries == 1000

\* keyPrefix.slice(0, -1): the prefix without its trailing colon.
keyPrefix == "water-services"

TTL_CURRENT_WATER_LEVEL == 840
TTL_CURRENT_FLOW_RATE == 840
TTL_CURRENT_COMBINED == 840
TTL_HISTORICAL_WATER_LEVEL == 1800
TTL_HISTORICAL_FLOW_RATE == 1800
TTL_DEFAULT == 300
TTL_MINIMUM == 60
TTL_MAXIMUM == 7200

WINDOW_CURRENT_DATA == 14
WINDOW_HISTORICAL_DATA == 30
WINDOW_DEFAULT == 5

\* CacheOptions.  An absent option is the falsy value of its type (0, "",
\* FALSE, NoHeaders): every use in the code tests the option for truthiness.
NoOptions ==
    [ttl |-> 0, keySuffix |-> "", toolType |-> "", dataType |-> "",
     timeWindow |-> 0, forceRefresh |-> FALSE, requestHeaders |-> NoHeaders,
     fallbackStrategy |-> "", maxStaleAge |-> 0]

\* getTtlForType(toolType, dataType)
getTtlForType(toolType, dataType) ==
    IF toolType = "" \/ dataType = "" THEN TTL_DEFAULT
    ELSE IF dataType = "current" THEN
        CASE toolType = "water-level" -> TTL_CURRENT_WATER_LEVEL
          [] toolType = "flow-rate" -> TTL_CURRENT_FLOW_RATE
          [] toolType = "combined-conditions" -> TTL_CURRENT_COMBINED
          [] OTHER -> TTL_DEFAULT
    ELSE IF dataType = "historical" THEN
        CASE toolType = "water-level" -> TTL_HISTORICAL_WATER_LEVEL
          [] toolType = "flow-rate" -> TTL_HISTORICAL_FLOW_RATE
          [] OTHER -> TTL_HISTORICAL_WATER_LEVEL
    ELSE TTL_DEFAULT

\* getTimeWindowForType(dataType)
getTimeWindowForType(dataType) ==
    CASE dataType = "current" -> WINDOW_CURRENT_DATA
      [] dataType = "historical" -> WINDOW_HISTORICAL_DATA
      [] OTHER -> WINDOW_DEFAULT

\* Variant of validateTtl: the upper limit only.
validateTtl_NoMinimum(ttl) == Min(TTL_MAXIMUM, ttl)

\* validateTtl(ttl)
validateTtl(ttl) == Max(TTL_MINIMUM, Min(TTL_MAXIMUM, ttl))

----------------------------------------------------------------------------
(* CacheService: cache keys *)

\* hashString of the identities of the exploration, computed once.
UrlHash == [u \in URLs \cup ToolUrls |-> hashString(u)]

\* Variant of generateTimeBucket: the bucket start is printed to the hour.
generateTimeBucket_ToHour(windowMinutes, t) ==
    << ToISOString((t \div (windowMinutes * 60)) * (windowMinutes * 60)).Y,
       ToISOString((t \div (windowMinutes * 60)) * (windowMinutes * 60)).Mo,
       ToISOString((t \div (windowMinutes * 60)) * (windowMinutes * 60)).D,
       ToISOString((t \div (windowMinutes * 60)) * (windowMinutes * 60)).h >>

\* generateTimeBucket(windowMinutes) at instant t: the start of the bucket,
\* printed as YYYYMMDDTHHMM (kept as the fields that are printed).
\* floor(ms / (w * 60000)) equals floor(s / (w * 60)) on whole seconds.
generateTimeBucket(windowMinutes, t) ==
    LET bucketSize  == windowMinutes * 60
        bucketStart == (t \div bucketSize) * bucketSize
        iso         == ToISOString(bucketStart)
    IN  << iso.Y, iso.Mo, iso.D, iso.h, iso.mi >>

\* Variant of generateCacheKey: a request without a data type is keyed as
\* 'current'.
generateCacheKey_DefaultCurrent(url, options, t) ==
    << keyPrefix,
       IF options.toolType # "" THEN options.toolType ELSE "generic",
       IF options.dataType # "" THEN options.dataType ELSE "current",
       generateTimeBucket(IF options.timeWindow > 0 THEN options.timeWindow ELSE 5, t),
       UrlHash[url] >>
    \o (IF options.keySuffix # "" THEN << options.keySuffix >> ELSE << >>)

\* generateCacheKey(url, options) at instant t.  The parts are kept as a
\* tuple; the code joins them with ':'.
generateCacheKey(url, options, t) ==
    << keyPrefix,
       IF options.toolType # "" THEN options.toolType ELSE "generic",
       IF options.dataType # "" THEN options.dataType ELSE "unknown",
       generateTimeBucket(IF options.timeWindow > 0 THEN options.timeWindow ELSE 5, t),
       UrlHash[url] >>
    \o (IF options.keySuffix # "" THEN << options.keySuffix >> ELSE << >>)

----------------------------------------------------------------------------
(* CacheService: bypass signals *)

\* Variant of shouldRefreshFromHeaders: a pragma that contains no-cache is
\* enough.
shouldRefreshFromHeaders_PragmaContains(headers) ==
    \/ /\ headers.cache_control # << >>
       /\ \/ Includes(ToLowerCase(headers.cache_control), NoCache)
          \/ Includes(ToLowerCase(headers.cache_control), NoStore)
          \/ Includes(ToLowerCase(headers.cache_control), MaxAge0)
    \/ /\ headers.pragma # << >>
       /\ Includes(ToLowerCase(headers.pragma), NoCache)
    \/ /\ headers.x_refresh_cache # << >>
       /\ ToLowerCase(headers.x_refresh_cache) \in TruthyValues
    \/ /\ headers.x_force_refresh # << >>
       /\ ToLowerCase(headers.x_force_refresh) \in TruthyValues

\* shouldRefreshFromHeaders(headers)
shouldRefreshFromHeaders(headers) ==
    LET lowerCC == ToLowerCase(headers.cache_control)
    IN  \/ /\ headers.cache_control # << >>
           /\ \/ Includes(lowerCC, NoCache)
              \/ Includes(lowerCC, NoStore)
              \/ Includes(lowerCC, MaxAge0)
        \/ /\ headers.pragma # << >>
           /\ ToLowerCase(headers.pragma) = NoCache
        \/ /\ headers.x_refresh_cache # << >>
           /\ ToLowerCase(headers.x_refresh_cache) \in TruthyValues
        \/ /\ headers.x_force_refresh # << >>
           /\ ToLowerCase(headers.x_force_refresh) \in TruthyValues

\* shouldBypassCache(options)
shouldBypassCache(options) ==
    \/ options.forceRefresh
    \/ shouldRefreshFromHeaders(options.requestHeaders)

----------------------------------------------------------------------------
(* Payloads and their JSON text *)

\* JavaScript null: what get returns for "nothing", and a JSON value too.
Null == "null"

\* Payloads a fetch function resolves to.
Payloads == {Null, "reading-A", "reading-B"}

\* JSON.stringify(data): the text of the body.  undefined has no JSON text
\* (the Response is built without a body); NaN is written as null.
JSONStringify(data) ==
    CASE data = Null -> "null"
      [] data = "NaN" -> "null"
      [] data = Undefined -> ""
      [] OTHER -> "json:" \o data

\* The empty list of points.
EmptyList == "[]"

JsonValues == Payloads \cup {EmptyList}

\* A value with a circular reference: JSON.stringify throws on it.
Circular == "circular"

\* Does JSON.stringify(data) throw?
StringifyThrows(data) == data = Circular

\* Does response.json() throw on this body?
JsonThrows(body) == \A v \in JsonValues : JSONStringify(v) # body

\* Variant of ResponseJson: the body is returned as text, unparsed.
ResponseJson_Text(body) == body

\* response.json(): the value the body text denotes.
ResponseJson(body) == CHOOSE v \in JsonValues : JSONStringify(v) = body

----------------------------------------------------------------------------
(* CacheService: the stored request/response pair *)

\* The value of options?.ttl || TTL_CONFIG.DEFAULT
EffectiveTtl(options) == IF options.ttl # 0 THEN options.ttl ELSE TTL_DEFAULT

\* createCacheResponse(data, options) at instant t: the body and the headers
\* that get and getStaleData read back.  Cache-Control is
\* "public, max-age=<ttl>, s-maxage=<ttl>", kept as the number printed.
\* Field payload is no part of the response: it remembers the value the
\* response was built from.
createCacheResponse(data, options, t) ==
    [present |-> TRUE,
     payload |-> data,
     body |-> JSONStringify(data),
     cacheControl |-> EffectiveTtl(options),
     cachedAt |-> ToISOString(t)]

\* extractMaxAge(cacheControl): /max-age=(\d+)/ does not match a minus sign
\* ("s-maxage=" does not contain "max-age="), then the default applies.
extractMaxAge(cacheControl) ==
    IF cacheControl >= 0 THEN cacheControl ELSE TTL_DEFAULT

\* cache.match yields this when nothing is stored under the key.
NoResponse == [present |-> FALSE, payload |-> Null, body |-> "", cacheControl |-> 0,
               cachedAt |-> ToISOString(0)]

----------------------------------------------------------------------------
(* State *)

VARIABLES
    now,        \* Date.now(), in seconds
    store,      \* the platform cache (caches.default): key -> stored response
    metrics,    \* CacheService.metrics
    cacheLog,   \* CacheService.cacheLog
    req,        \* the calls in progress, one frame per slot
    cfg         \* the identity and the options common to the calls of a run

vars == << now, store, metrics, cacheLog, req, cfg >>

\* Bounds of the exploration.
StartTime == 1749470520          \* 2025-06-09T12:02:00Z
TickSeconds == 60
MaxElapsed == 180
MaxPriorLog == 0                 \* a call starts with at most this many log entries
HugeStaleAge == 2000000000

Slots == {1, 2}

InitialMetrics ==
    [hits |-> 0, misses |-> 0, errors |-> 0, bypasses |-> 0,
     invalidations |-> 0, staleEntries |-> 0, fallbackHits |-> 0,
     emergencyFallbacks |-> 0, cacheFailures |-> 0]

\* Outcome of the fetch function: not yet known, resolved, or rejected.
NoFetch == [state |-> "none", value |-> Null, error |-> ""]

\* Outcome of the call: pending, returned, or thrown.
NoRet == [state |-> "pending", source |-> "", data |-> Null, cacheAge |-> 0,
          ok |-> FALSE, error |-> ""]

IdleFrame ==
    [pc |-> "idle", op |-> "none", url |-> << >>, opts |-> NoOptions,
     fn |-> "none",
     ckey |-> << >>,            \* key of the cache request in flight
     readKey |-> << >>,         \* key of the request get handed to cache.match
     resp |-> NoResponse,       \* response handed to cache.put
     via |-> "",                \* the helper the call came through, if any
     arg |-> Null,              \* data argument of set
     staleMax |-> 0,            \* maxStaleAge of the stale read in flight
     seen |-> NoResponse,       \* what cache.match returned to get
     seenAt |-> 0,              \* when it returned
     staleSeen |-> NoResponse,  \* what cache.match returned to getStaleData
     staleAt |-> 0,             \* when it returned
     lastPut |-> "none",        \* how the cache.put of the call ended
     putSeq |-> 0,              \* place of the call's SET entry in the log
     metrics0 |-> InitialMetrics, \* the counters when the call began
     log0 |-> 0,                \* the length of the log when the call began
     upstream |-> "none",       \* what the upstream source did (tool fetch functions)
     fetched |-> NoFetch,
     ret |-> NoRet,
     nRead |-> 0, nFetch |-> 0, nStale |-> 0, nEmergency |-> 0,
     nDelete |-> 0, nPut |-> 0,
     cacheOpFailed |-> FALSE,   \* a platform operation of the call threw
     serializeFailed |-> FALSE] \* JSON.stringify or response.json() threw

Strategies == {"", "stale", "emergency", "throw", "ignore"}

FetchErrors == {"Request timeout after 5000ms", "HTTP 503: Service Unavailable"}

\* Bypass signals of one call: (forceRefresh, requestHeaders).
BypassChoices ==
    { << FALSE, h >> : h \in HeaderChoices } \cup { << TRUE, NoHeaders >> }

\* Options common to the calls of one run.
BaseOptions ==
    { [NoOptions EXCEPT !.ttl = 60],
      [NoOptions EXCEPT !.ttl = 60, !.toolType = "flow-rate", !.dataType = "current",
                        !.maxStaleAge = HugeStaleAge] }

\* The runs explored: direct calls of the cache service on one identity, or
\* the retrieval of the water-level tool.
Configs ==
    [caller : {"direct"}, url : URLs, base : BaseOptions, maxInFlight : {1}]
    \cup [caller : {"tool"}, url : {UrlTool}, base : {NoOptions}, maxInFlight : {1}]

Init ==
    /\ now = StartTime
    /\ store = [k \in {} |-> NoResponse]
    /\ metrics = InitialMetrics
    /\ cacheLog = << >>
    /\ req = [r \in Slots |-> IdleFrame]
    /\ cfg \in Configs

----------------------------------------------------------------------------
(* CacheService: logging and counters.  A context c carries the frame of   *)
(* the running call (c.f), the metrics (c.m) and the log (c.l) through the *)
(* synchronous code between two awaits.                                    *)

\* Variant of logCacheActivity: a full log takes no new entry.
logCacheActivity_KeepOldest(c, action, cacheKey, error) ==
    IF Len(c.l) >= maxLogEntries THEN c
    ELSE [c EXCEPT !.l = Append(c.l, [action |-> action, cacheKey |-> cacheKey,
                                      error |-> error])]

\* logCacheActivity(action, cacheKey, ..., error): push, then drop the
\* oldest entry when the log is over capacity.
logCacheActivity(c, action, cacheKey, error) ==
    LET pushed == Append(c.l, [action |-> action, cacheKey |-> cacheKey,
                               error |-> error])
    IN  [c EXCEPT !.l = IF Len(pushed) > maxLogEntries THEN Tail(pushed)
                        ELSE pushed]

\* Variant of Count: the counter is left as it is.
Count_Never(c, counter) == c

\* this.metrics.<counter>++
Count(c, counter) == [c EXCEPT !.m[counter] = @ + 1]

\* The call returns or throws.
Finish(c, ret) == [c EXCEPT !.f.pc = "done", !.f.ret = ret]

Returned(source, data, cacheAge) ==
    [NoRet EXCEPT !.state = "return", !.source = source, !.data = data,
                  !.cacheAge = cacheAge]

ReturnedFlag(ok) == [NoRet EXCEPT !.state = "return", !.ok = ok]

Thrown(error) == [NoRet EXCEPT !.state = "throw", !.error = error]

----------------------------------------------------------------------------
(* USGSApiService: the fetch function of the water-level tool *)

UpstreamOutcomes == {"reading", "empty", "timeout", "network", "http"}

UpstreamFailures == {"timeout", "network", "http"}

\* fetchWithTimeout(url, timeoutMs): the parsed body, or an exception.
fetchWithTimeout(outcome) ==
    CASE outcome = "timeout" ->
            [threw |-> TRUE, error |-> "Request timeout after 5000ms", body |-> ""]
      [] outcome = "network" ->
            [threw |-> TRUE, error |-> "fetch failed", body |-> ""]
      [] outcome = "http" ->
            [threw |-> TRUE, error |-> "HTTP 503: Service Unavailable", body |-> ""]
      [] outcome = "malformed" ->
            [threw |-> TRUE, error |-> "Unexpected token < in JSON", body |-> ""]
      [] OTHER ->
            [threw |-> FALSE, error |-> "", body |-> outcome]

\* parseCurrentWaterLevelResponse(response, historical)
parseCurrentWaterLevelResponse(body) ==
    IF body = "reading" THEN "reading-A" ELSE Null

\* getCurrentWaterLevel(): every exception of the retrieval is caught and
\* turned into null.
getCurrentWaterLevel(outcome) ==
    LET response == fetchWithTimeout(outcome)
    IN  IF response.threw
           THEN [state |-> "resolved", value |-> Null, error |-> ""]
           ELSE [state |-> "resolved",
                 value |-> parseCurrentWaterLevelResponse(response.body),
                 error |-> ""]

\* getHistoricalWaterLevelPoints(): every exception of the retrieval is
\* caught and turned into the empty list.
getHistoricalWaterLevelPoints(outcome) ==
    [state |-> "resolved",
     value |-> IF fetchWithTimeout(outcome).threw \/ fetchWithTimeout(outcome).body # "reading"
                  THEN EmptyList ELSE "reading-B",
     error |-> ""]

\* get90MinuteWaterLevelPoints(): the points of the last 90 minutes,
\* retrieved as the 7-day points are.
get90MinuteWaterLevelPoints(outcome) == getHistoricalWaterLevelPoints(outcome)

\* What a caller-supplied fetch function may do.
GenericFetchResults ==
    { [state |-> "resolved", value |-> v, error |-> ""] : v \in Payloads }
    \cup { [state |-> "rejected", value |-> Null, error |-> e] : e \in FetchErrors }

----------------------------------------------------------------------------
(* CacheService.fetchWithFallback: the fallback tiers.  Each operator is   *)
(* the synchronous code run at instant t, up to the next await or to the   *)
(* end of the call.                                                        *)

\* Variant of ThrowTier: the outer catch throws a new error built from its
\* log message in place of the caught one.
ThrowTier_Wrapped(c, t) ==
    Finish(logCacheActivity(c, "ERROR", generateCacheKey(c.f.url, c.f.opts, t),
                            "All fallback strategies failed"),
           Thrown("All fallback strategies failed"))

\* case 'throw': throw fetchError; the outer catch logs and rethrows it.
ThrowTier(c, t) ==
    Finish(logCacheActivity(c, "ERROR", generateCacheKey(c.f.url, c.f.opts, t),
                            "All fallback strategies failed"),
           Thrown(c.f.fetched.error))

\* The placeholder createEmergencyFallback builds for a URL with a station.
EmergencyData(url, options) ==
    LET hasParam  == MatchesLitDigits(url, ParameterCdEq)
        paramCode == IF hasParam THEN Group1(url, ParameterCdEq) ELSE << >>
    IN  IF options.toolType = "water-level" \/ paramCode = GageHeightCode
           THEN "emergency-water-level"
        ELSE IF options.toolType = "flow-rate" \/ paramCode = DischargeCode
           THEN "emergency-flow-rate"
        ELSE "emergency-generic"

\* Variant of EmergencyTier: the placeholder is built without looking for a
\* station in the URL.
EmergencyTier_NoStationCheck(c, t) ==
    Finish(logCacheActivity(Count([c EXCEPT !.f.nEmergency = @ + 1],
                                  "emergencyFallbacks"),
                            "EMERGENCY", generateCacheKey(c.f.url, c.f.opts, t),
                            "Emergency fallback for station"),
           Returned("emergency", EmergencyData(c.f.url, c.f.opts), 0))

\* case 'emergency': createEmergencyFallback, falling through to 'throw'
\* when the URL carries no station.
EmergencyTier(c, t) ==
    LET c0 == [c EXCEPT !.f.nEmergency = @ + 1]
    IN  IF ~ MatchesLitDigits(c.f.url, SitesEq) THEN ThrowTier(c0, t)
        ELSE Finish(logCacheActivity(Count(c0, "emergencyFallbacks"), "EMERGENCY",
                                     generateCacheKey(c.f.url, c.f.opts, t),
                                     "Emergency fallback for station"),
                    Returned("emergency", EmergencyData(c.f.url, c.f.opts), 0))

\* Variant of StrategyOf: a call without a strategy is treated as 'ignore'.
StrategyOf_DefaultIgnore(options) ==
    IF options.fallbackStrategy # "" THEN options.fallbackStrategy ELSE "ignore"

\* The strategy of the call: options?.fallbackStrategy || 'stale'.
StrategyOf(options) ==
    IF options.fallbackStrategy # "" THEN options.fallbackStrategy ELSE "stale"

\* getStaleData up to its await: the key and the request are built, and
\* cache.match is in flight.  maxStaleAge is the option the call passes.
StaleReadPrefix(c, maxStaleAge, t) ==
    [c EXCEPT !.f.pc = "staleRead",
              !.f.ckey = generateCacheKey(c.f.url, c.f.opts, t),
              !.f.staleMax = maxStaleAge,
              !.f.nStale = @ + 1]

\* getStaleData: is the entry too old?  The code computes
\*   age = (Date.now() - parseInt(cachedAt)) / 1000   and tests  age > maxStaleAge,
\* Date.now() in milliseconds.  On whole seconds t:
\*   (1000 t - p) / 1000 > m  <=>  t - m > p / 1000  <=>  t - m > p \div 1000.
StaleAgeExceeds(t, cachedAt, maxStaleAge) ==
    (t - maxStaleAge) > (ParseInt(cachedAt) \div 1000)

\* The whole seconds of the age getStaleData reports.
StaleAge(t, cachedAt) == t - ((ParseInt(cachedAt) + 999) \div 1000)

\* getStaleData after its await: found, with the data and the age, or null.
StaleResult(c, failed, resp, t) ==
    LET maxStaleAge == IF c.f.staleMax # 0 THEN c.f.staleMax ELSE 3600
        none == [found |-> FALSE, data |-> Null, age |-> 0]
    IN  IF failed \/ (resp.present /\ ~ StaleAgeExceeds(t, resp.cachedAt, maxStaleAge)
                                   /\ JsonThrows(resp.body))
           THEN [r |-> none,
                 c |-> logCacheActivity([c EXCEPT !.f.cacheOpFailed = @ \/ failed],
                          "ERROR", generateCacheKey(c.f.url, c.f.opts, t),
                          "Stale data retrieval failed")]
        ELSE IF ~ resp.present THEN [r |-> none, c |-> c]
        ELSE IF StaleAgeExceeds(t, resp.cachedAt, maxStaleAge)
           THEN [r |-> none,
                 c |-> logCacheActivity(c, "STALE", c.f.ckey,
                                        "Data too old for stale fallback")]
        ELSE [r |-> [found |-> TRUE, data |-> ResponseJson(resp.body),
                     age |-> StaleAge(t, resp.cachedAt)],
              c |-> logCacheActivity(c, "FALLBACK", c.f.ckey, "Using stale data")]

\* fetchWithFallback after the stale read of case 'stale' or of case 'ignore'.
AfterStaleRead(c, failed, resp, t) ==
    LET sr == StaleResult(IF failed THEN c
                          ELSE [c EXCEPT !.f.staleSeen = resp, !.f.staleAt = t],
                          failed, resp, t)
    IN  IF sr.r.found
           THEN Finish(Count(sr.c, "fallbackHits"),
                       Returned("stale", sr.r.data, sr.r.age))
        ELSE IF StrategyOf(c.f.opts) = "stale" THEN EmergencyTier(sr.c, t)
        ELSE ThrowTier(sr.c, t)

\* catch (fetchError): the switch on the strategy.
FetchFailed(c, t) ==
    LET strategy == StrategyOf(c.f.opts)
    IN  CASE strategy = "stale" -> StaleReadPrefix(c, c.f.opts.maxStaleAge, t)
          [] strategy = "emergency" -> EmergencyTier(c, t)
          [] strategy = "throw" -> ThrowTier(c, t)
          [] OTHER -> StaleReadPrefix(c, 86400, t)

\* Variant of SetPrefix: the response is built before the data are known.
SetPrefix_EmptyBody(c, data, t) ==
    [c EXCEPT !.f.pc = "put",
              !.f.ckey = generateCacheKey(c.f.url, c.f.opts, t),
              !.f.resp = createCacheResponse(Null, c.f.opts, t),
              !.f.nPut = @ + 1]

\* Variant of SetCatch: the error is logged but not counted.
SetCatch_NotCounted(c, t, error) ==
    logCacheActivity([c EXCEPT !.f.lastPut = "failed"],
                     "ERROR", generateCacheKey(c.f.url, c.f.opts, t), error)

\* The catch block of set.
SetCatch(c, t, error) ==
    logCacheActivity(Count([c EXCEPT !.f.lastPut = "failed"], "errors"),
                     "ERROR", generateCacheKey(c.f.url, c.f.opts, t), error)

\* set returns: to its caller the flag, or into fetchWithFallback, which
\* ignores it and returns the fresh data.
SetReturn(c, ok) ==
    IF c.f.op = "set" THEN Finish(c, ReturnedFlag(ok))
    ELSE Finish(c, Returned("fresh", c.f.fetched.value, 0))

\* set up to its await: the request and the response are built and
\* cache.put is in flight; or JSON.stringify threw and set returns false.
SetPrefix(c, data, t) ==
    IF StringifyThrows(data)
       THEN SetReturn(SetCatch([c EXCEPT !.f.serializeFailed = TRUE], t,
                               "Converting circular structure to JSON"),
                      FALSE)
    ELSE [c EXCEPT !.f.pc = "put",
                   !.f.ckey = generateCacheKey(c.f.url, c.f.opts, t),
                   !.f.resp = createCacheResponse(data, c.f.opts, t),
                   !.f.nPut = @ + 1]

\* set after its await (the platform put succeeded or threw); tells whether
\* set returns true.
SetResult(c, failed, t) ==
    IF failed THEN SetCatch([c EXCEPT !.f.cacheOpFailed = TRUE], t, "put failed")
    ELSE logCacheActivity([c EXCEPT !.f.lastPut = "ok", !.f.putSeq = Len(c.l) + 1], "SET",
                          generateCacheKey(c.f.url, c.f.opts, t), "")

\* delete after its await.
DeleteResult(c, failed, t) ==
    IF failed
       THEN logCacheActivity(Count([c EXCEPT !.f.cacheOpFailed = TRUE], "errors"),
                "ERROR", generateCacheKey(c.f.url, c.f.opts, t), "delete failed")
    ELSE logCacheActivity(c, "DELETE", generateCacheKey(c.f.url, c.f.opts, t), "")

\* fetchWithFallback: fetchFn() is invoked and awaited.
InvokeFetch(c) == [c EXCEPT !.f.pc = "fetch", !.f.nFetch = @ + 1]

\* Variant of AfterFetch: a fetch function that resolved to null is invoked
\* again.
AfterFetch_RetryOnNull(c, res, t) ==
    IF res.state = "resolved" /\ res.value = Null
       THEN InvokeFetch([c EXCEPT !.f.fetched = res])
    ELSE IF res.state = "resolved" THEN SetPrefix([c EXCEPT !.f.fetched = res], res.value, t)
    ELSE FetchFailed([c EXCEPT !.f.fetched = res], t)

\* Variant of AfterFetch: when the fetch function fails the emergency
\* placeholder is stored and returned.
AfterFetch_StorePlaceholder(c, res, t) ==
    IF res.state = "resolved" THEN SetPrefix([c EXCEPT !.f.fetched = res], res.value, t)
    ELSE SetPrefix([c EXCEPT !.f.fetched = res], EmergencyData(c.f.url, c.f.opts), t)

\* fetchWithFallback after fetchFn settled with outcome res.
AfterFetch(c, res, t) ==
    LET c0 == [c EXCEPT !.f.fetched = res]
    IN  IF res.state = "resolved" THEN SetPrefix(c0, res.value, t)
        ELSE FetchFailed(c0, t)

\* get returns data: to its caller, or into fetchWithFallback, which returns
\* it as 'cache' unless it is null.
ReturnFromGet(c, data) ==
    IF c.f.op = "get" THEN Finish(c, Returned("", data, 0))
    ELSE IF data # Null THEN Finish(c, Returned("cache", data, 0))
    ELSE InvokeFetch(c)

\* Variant of GetCatch: the error is logged and thrown again.
GetCatch_Rethrow(c, t) ==
    Finish(logCacheActivity(Count(c, "errors"), "ERROR",
                            generateCacheKey(c.f.url, c.f.opts, t), "get failed"),
           Thrown("get failed"))

\* The catch block of get.
GetCatch(c, t) ==
    ReturnFromGet(logCacheActivity(Count(c, "errors"), "ERROR",
                      generateCacheKey(c.f.url, c.f.opts, t), "get failed"),
                  Null)

\* get after cache.match resolved with resp.  A response stored by set
\* always carries X-Cached-At and Cache-Control.  now - cacheTime > maxAge * 1000
\* in milliseconds is t - cacheTime > maxAge on whole seconds.
GetAfterMatch(c, resp, t) ==
    LET cacheKey == generateCacheKey(c.f.url, c.f.opts, t)
        c0 == [c EXCEPT !.f.seen = resp, !.f.seenAt = t]
    IN  IF resp.present THEN
            IF t - DateParse(resp.cachedAt) > extractMaxAge(resp.cacheControl)
               THEN \* await this.delete(url, options): cache.delete in flight
                    [c0 EXCEPT !.f.pc = "evict", !.f.ckey = cacheKey,
                               !.f.nDelete = @ + 1]
            ELSE LET c1 == logCacheActivity(Count(c0, "hits"), "HIT", cacheKey, "")
                 IN  IF JsonThrows(resp.body)
                        THEN GetCatch([c1 EXCEPT !.f.serializeFailed = TRUE], t)
                     ELSE ReturnFromGet(c1, ResponseJson(resp.body))
        ELSE ReturnFromGet(logCacheActivity(Count(c0, "misses"), "MISS", cacheKey, ""),
                           Null)

\* get up to its first await.
GetPrefix(c, t) ==
    LET cacheKey == generateCacheKey(c.f.url, c.f.opts, t)
    IN  IF shouldBypassCache(c.f.opts)
           THEN [logCacheActivity(Count(c, "bypasses"), "BYPASS", cacheKey, "")
                    EXCEPT !.f.pc = "invalidate", !.f.ckey = cacheKey,
                           !.f.nDelete = @ + 1]
        ELSE [c EXCEPT !.f.pc = "match", !.f.ckey = cacheKey,
                       !.f.readKey = cacheKey, !.f.nRead = @ + 1]

\* fetchWithFallback up to its first await.
FetchWithFallbackPrefix(c, t) ==
    IF ~ shouldBypassCache(c.f.opts) THEN GetPrefix(c, t) ELSE InvokeFetch(c)

----------------------------------------------------------------------------
(* Actions *)

Ctx(r) == [f |-> req[r], m |-> metrics, l |-> cacheLog]

\* The state after the synchronous code left context c for the call in slot r.
Becomes(r, c) ==
    /\ req' = [req EXCEPT ![r] = c.f]
    /\ metrics' = c.m
    /\ cacheLog' = c.l

Lookup(key) == IF key \in DOMAIN store THEN store[key] ELSE NoResponse

\* Variant of StorePut: an entry already under the key is kept.
StorePut_KeepFirst(key, resp) ==
    [k \in DOMAIN store \cup {key} |-> IF k \in DOMAIN store THEN store[k] ELSE resp]

\* cache.put(request, response)
StorePut(key, resp) ==
    [k \in DOMAIN store \cup {key} |-> IF k = key THEN resp ELSE store[k]]

\* cache.delete(request)
StoreDelete(key) == [k \in DOMAIN store \ {key} |-> store[k]]

InFlight == {r \in Slots : req[r].pc # "idle"}

\* The caller of a finished call takes its result before anything else
\* happens; callers of concurrent calls take theirs at any time.
NoneDone == cfg.maxInFlight > 1 \/ \A r \in Slots : req[r].pc # "done"

\* A new call takes the lowest free slot.
CanStart(r) ==
    /\ NoneDone
    /\ req[r].pc = "idle"
    /\ \A q \in Slots : q < r => req[q].pc # "idle"
    /\ Cardinality(InFlight) < cfg.maxInFlight
    /\ Len(cacheLog) <= MaxPriorLog

CanStartDirect(r) == CanStart(r) /\ cfg.caller \in {"direct", "adapter"}

CanStartAdapter(r) == CanStart(r) /\ cfg.caller = "adapter"

CanStartTool(r) == CanStart(r) /\ cfg.caller = "tool"

\* The options of one call: those of the run plus the call's bypass signals
\* and fallback strategy.
CallOptions(bypass, strategy) ==
    [cfg.base EXCEPT !.forceRefresh = bypass[1], !.requestHeaders = bypass[2],
                     !.fallbackStrategy = strategy]

NewFrame(op, url, options, fn) ==
    [IdleFrame EXCEPT !.op = op, !.url = url, !.opts = options, !.fn = fn,
                      !.metrics0 = metrics, !.log0 = Len(cacheLog)]

\* cacheService.get(url, options)
CallGet(r) ==
    /\ CanStartDirect(r)
    /\ \E bypass \in BypassChoices :
          Becomes(r, GetPrefix([Ctx(r) EXCEPT
                        !.f = NewFrame("get", cfg.url, CallOptions(bypass, ""), "none")],
                     now))
    /\ UNCHANGED << now, store, cfg >>

\* cacheService.set(url, data, options)
CallSet(r) ==
    /\ CanStartDirect(r)
    /\ \E data \in Payloads :
          Becomes(r, SetPrefix([Ctx(r) EXCEPT
                        !.f = [NewFrame("set", cfg.url, cfg.base, "none")
                                  EXCEPT !.arg = data]],
                     data, now))
    /\ UNCHANGED << now, store, cfg >>

\* cacheService.set(url, data, options) with data that have no JSON text.
CallSetUnserializable(r) ==
    /\ CanStartAdapter(r)
    /\ \E data \in {Undefined, Circular} :
          Becomes(r, SetPrefix([Ctx(r) EXCEPT
                        !.f = [NewFrame("set", cfg.url, cfg.base, "none")
                                  EXCEPT !.arg = data]],
                     data, now))
    /\ UNCHANGED << now, store, cfg >>

\* cacheService.delete(url, options)
CallDelete(r) ==
    /\ CanStartDirect(r)
    /\ Becomes(r, [Ctx(r) EXCEPT
                      !.f = [NewFrame("delete", cfg.url, cfg.base, "none")
                                EXCEPT !.pc = "del",
                                       !.ckey = generateCacheKey(cfg.url, cfg.base, now),
                                       !.nDelete = 1]])
    /\ UNCHANGED << now, store, cfg >>

\* cacheService.fetchWithFallback(url, fetchFn, options)
CallFetchWithFallback(r) ==
    /\ CanStartDirect(r)
    /\ \E bypass \in BypassChoices, strategy \in Strategies :
          Becomes(r, FetchWithFallbackPrefix([Ctx(r) EXCEPT
                        !.f = NewFrame("fetchWithFallback", cfg.url,
                                       CallOptions(bypass, strategy), "generic")],
                     now))
    /\ UNCHANGED << now, store, cfg >>

\* cacheService.cacheCurrentWaterLevel(url, () => usgsService.getCurrentWaterLevel(),
\* options), as the water-level tool calls it: fetchWithCache, that is
\* fetchWithFallback with the category options forced.
CallCacheCurrentWaterLevel(r) ==
    /\ CanStartTool(r)
    /\ \E bypass \in BypassChoices, strategy \in Strategies :
          LET options == CallOptions(bypass, strategy)
              forced  == [options EXCEPT
                            !.toolType = "water-level",
                            !.dataType = "current",
                            !.timeWindow = getTimeWindowForType("current"),
                            !.ttl = validateTtl(IF options.ttl # 0 THEN options.ttl
                                                ELSE getTtlForType("water-level", "current"))]
          IN  Becomes(r, FetchWithFallbackPrefix([Ctx(r) EXCEPT
                            !.f = [NewFrame("fetchWithFallback", cfg.url, forced,
                                            "getCurrentWaterLevel")
                                      EXCEPT !.via = "cacheCurrentWaterLevel"]],
                         now))
    /\ UNCHANGED << now, store, cfg >>

\* get: cache.match settles.
StepMatch(r) ==
    /\ NoneDone
    /\ req[r].pc = "match"
    /\ \E failed \in BOOLEAN :
          Becomes(r, IF failed
                        THEN GetCatch([Ctx(r) EXCEPT !.f.cacheOpFailed = TRUE], now)
                        ELSE GetAfterMatch(Ctx(r), Lookup(req[r].ckey), now))
    /\ UNCHANGED << now, store, cfg >>

\* get: the delete of an expired entry settles; the eviction is counted and
\* get returns null.
StepEvict(r) ==
    /\ NoneDone
    /\ req[r].pc = "evict"
    /\ \E failed \in BOOLEAN :
          /\ store' = IF failed THEN store ELSE StoreDelete(req[r].ckey)
          /\ Becomes(r, ReturnFromGet(
                          logCacheActivity(
                            Count(DeleteResult(Ctx(r), failed, now), "staleEntries"),
                            "STALE", req[r].ckey, ""),
                          Null))
    /\ UNCHANGED << now, cfg >>

\* get: the delete of a bypassed read settles; the invalidation is counted
\* and get returns null.
StepInvalidate(r) ==
    /\ NoneDone
    /\ req[r].pc = "invalidate"
    /\ \E failed \in BOOLEAN :
          /\ store' = IF failed THEN store ELSE StoreDelete(req[r].ckey)
          /\ Becomes(r, ReturnFromGet(
                          logCacheActivity(
                            Count(DeleteResult(Ctx(r), failed, now), "invalidations"),
                            "INVALIDATE", req[r].ckey, ""),
                          Null))
    /\ UNCHANGED << now, cfg >>

\* fetchWithFallback: the fetch function settles.
StepFetch(r) ==
    /\ NoneDone
    /\ req[r].pc = "fetch"
    /\ \/ /\ req[r].fn = "generic"
          /\ \E res \in GenericFetchResults :
                Becomes(r, AfterFetch(Ctx(r), res, now))
       \/ /\ req[r].fn = "getCurrentWaterLevel"
          /\ \E outcome \in UpstreamOutcomes :
                Becomes(r, AfterFetch([Ctx(r) EXCEPT !.f.upstream = outcome],
                                      getCurrentWaterLevel(outcome), now))
    /\ UNCHANGED << now, store, cfg >>

\* set: cache.put settles.  Inside fetchWithFallback the result of set is
\* ignored and the fresh data are returned.
StepPut(r) ==
    /\ NoneDone
    /\ req[r].pc = "put"
    /\ \E failed \in BOOLEAN :
          /\ store' = IF failed THEN store ELSE StorePut(req[r].ckey, req[r].resp)
          /\ Becomes(r, SetReturn(SetResult(Ctx(r), failed, now), ~ failed))
    /\ UNCHANGED << now, cfg >>

\* getStaleData: cache.match settles.
StepStaleRead(r) ==
    /\ NoneDone
    /\ req[r].pc = "staleRead"
    /\ \E failed \in BOOLEAN :
          Becomes(r, AfterStaleRead(Ctx(r), failed, Lookup(req[r].ckey), now))
    /\ UNCHANGED << now, store, cfg >>

\* delete: cache.delete settles.
StepDelete(r) ==
    /\ NoneDone
    /\ req[r].pc = "del"
    /\ \E failed \in BOOLEAN :
          /\ store' = IF failed THEN store ELSE StoreDelete(req[r].ckey)
          /\ Becomes(r, Finish(DeleteResult(Ctx(r), failed, now),
                               ReturnedFlag(~ failed /\ req[r].ckey \in DOMAIN store)))
    /\ UNCHANGED << now, cfg >>

\* The caller takes the result of the finished call in slot r.
Return(r) ==
    /\ req[r].pc = "done"
    /\ req' = [req EXCEPT ![r] = IdleFrame]
    /\ UNCHANGED << now, store, metrics, cacheLog, cfg >>

\* cacheService.resetMetrics(), called while no call is in progress.
ResetMetrics ==
    /\ InFlight = {}
    /\ cacheLog # << >>
    /\ metrics' = InitialMetrics
    /\ cacheLog' = << >>
    /\ UNCHANGED << now, store, req, cfg >>

\* Time passes.
Tick ==
    /\ NoneDone
    /\ now + TickSeconds <= StartTime + MaxElapsed
    /\ now' = now + TickSeconds
    /\ UNCHANGED << store, metrics, cacheLog, req, cfg >>

Next ==
    \/ \E r \in Slots : CallGet(r)
    \/ \E r \in Slots : CallSet(r)
    \/ \E r \in Slots : CallDelete(r)
    \/ \E r \in Slots : CallFetchWithFallback(r)
    \/ \E r \in Slots : CallCacheCurrentWaterLevel(r)
    \/ \E r \in Slots : StepMatch(r)
    \/ \E r \in Slots : StepEvict(r)
    \/ \E r \in Slots : StepInvalidate(r)
    \/ \E r \in Slots : StepFetch(r)
    \/ \E r \in Slots : StepPut(r)
    \/ \E r \in Slots : StepStaleRead(r)
    \/ \E r \in Slots : StepDelete(r)
    \/ \E r \in Slots : Return(r)
    \/ ResetMetrics
    \/ Tick

Spec == Init /\ [][Next]_vars

----------------------------------------------------------------------------
(* The adapter operations alone, called with any data *)

AdapterConfigs ==
    [caller : {"adapter"}, url : {UrlStation},
     base : {[NoOptions EXCEPT !.ttl = 60]}, maxInFlight : {1}]

InitAdapter ==
    /\ now = StartTime
    /\ store = [k \in {} |-> NoResponse]
    /\ metrics = InitialMetrics
    /\ cacheLog = << >>
    /\ req = [r \in Slots |-> IdleFrame]
    /\ cfg \in AdapterConfigs

NextAdapter ==
    \/ \E r \in Slots : CallGet(r)
    \/ \E r \in Slots : CallSet(r)
    \/ \E r \in Slots : CallSetUnserializable(r)
    \/ \E r \in Slots : CallDelete(r)
    \/ \E r \in Slots : StepMatch(r)
    \/ \E r \in Slots : StepEvict(r)
    \/ \E r \in Slots : StepInvalidate(r)
    \/ \E r \in Slots : StepPut(r)
    \/ \E r \in Slots : StepDelete(r)
    \/ \E r \in Slots : Return(r)
    \/ ResetMetrics
    \/ Tick

SpecAdapter == InitAdapter /\ [][NextAdapter]_vars

----------------------------------------------------------------------------
(* Properties of fetchWithFallback and of get *)

\* A finished call of fetchWithFallback whose result the caller has not
\* taken yet.
FwfDone(r) == req[r].pc = "done" /\ req[r].op = "fetchWithFallback"

\* Seconds between the storing of resp and instant t.
TrueAge(resp, t) == t - DateParse(resp.cachedAt)

\* resp is within its TTL at instant t.
Unexpired(resp, t) == TrueAge(resp, t) <= extractMaxAge(resp.cacheControl)

\* The maximum stale age the stale read of a call with these options is
\* given: 24 hours under 'ignore', else the option or one hour.
MaxStaleOf(options) ==
    IF StrategyOf(options) = "stale"
       THEN (IF options.maxStaleAge # 0 THEN options.maxStaleAge ELSE 3600)
    ELSE 86400

\* C1 (as the specification states it): a call of fetchWithFallback without
\* bypass whose cache read found an unexpired entry under the key returns
\* source 'cache' with that entry's payload and never invokes the fetch
\* function.
C1_CachedWhenUnexpired ==
    \A r \in Slots :
        ( /\ FwfDone(r)
          /\ ~ shouldBypassCache(req[r].opts)
          /\ req[r].seen.present
          /\ Unexpired(req[r].seen, req[r].seenAt) )
        => ( /\ req[r].ret.state = "return"
             /\ req[r].ret.source = "cache"
             /\ req[r].ret.data = ResponseJson(req[r].seen.body)
             /\ req[r].nFetch = 0 )

\* C2: a call of fetchWithFallback that is past its cache read without a
\* cached result, or that bypasses the cache, has invoked the fetch function
\* exactly once; when the fetch function resolved, the call returns source
\* 'fresh' with exactly the resolved payload, whether the cache write
\* succeeded or failed, and after a successful write the store holds under
\* the key of the write a response whose body parses to that payload.
C2_FreshOnMissOrBypass ==
    \A r \in Slots :
        req[r].op = "fetchWithFallback" =>
          /\ ( \/ req[r].pc \in {"match", "evict"}
               \/ (req[r].pc = "done" /\ req[r].ret.source = "cache")
               \/ req[r].nFetch = 1 )
          /\ (shouldBypassCache(req[r].opts) => req[r].nFetch = 1)
          /\ (req[r].pc = "done" /\ req[r].fetched.state = "resolved") =>
                /\ req[r].ret.state = "return"
                /\ req[r].ret.source = "fresh"
                /\ req[r].ret.data = req[r].fetched.value
                /\ req[r].lastPut \in {"ok", "failed"}
                /\ req[r].lastPut = "ok" =>
                      /\ Lookup(req[r].ckey).present
                      /\ ~ JsonThrows(Lookup(req[r].ckey).body)
                      /\ ResponseJson(Lookup(req[r].ckey).body) = req[r].fetched.value

\* C2 witness: the fetch function resolved, the cache write failed, and the
\* call returned the payload as 'fresh'.
C2_Witness ==
    \E r \in Slots :
        /\ FwfDone(r)
        /\ req[r].fetched.state = "resolved"
        /\ req[r].fetched.value # Null
        /\ req[r].lastPut = "failed"
        /\ req[r].ret.source = "fresh"

\* The entry a call found under its key: the one its cache read returned
\* or, when that read found none or was skipped, the one its stale read
\* returned.
HeldEntry(r) == IF req[r].seen.present THEN req[r].seen ELSE req[r].staleSeen

\* C3 (as the specification states it): when the fetch function failed under
\* strategy 'stale' and the call found under its key an entry past its TTL
\* and no older than the maximum stale age, the call returns source 'stale'
\* with that entry's payload and its age.
C3_StaleWithinMaxAge ==
    \A r \in Slots :
        ( /\ FwfDone(r)
          /\ req[r].fetched.state = "rejected"
          /\ StrategyOf(req[r].opts) = "stale"
          /\ HeldEntry(r).present
          /\ ~ Unexpired(HeldEntry(r), now)
          /\ TrueAge(HeldEntry(r), now) <= MaxStaleOf(req[r].opts) )
        => ( /\ req[r].ret.state = "return"
             /\ req[r].ret.source = "stale"
             /\ req[r].ret.data = ResponseJson(HeldEntry(r).body)
             /\ req[r].ret.cacheAge = TrueAge(HeldEntry(r), now) )

\* The stale read of the call found an entry no older than the maximum
\* stale age.
UsableStale(r) ==
    /\ req[r].staleSeen.present
    /\ TrueAge(req[r].staleSeen, req[r].staleAt) <= MaxStaleOf(req[r].opts)

\* C4: when the fetch function failed and the strategy is 'emergency', or
\* the strategy is 'stale' and the stale read found no usable entry, the
\* call returns source 'emergency' with the placeholder payload if the URL
\* carries a station identifier, and otherwise throws the error of the
\* fetch function.
C4_EmergencyOrOriginalError ==
    \A r \in Slots :
        ( /\ FwfDone(r)
          /\ req[r].fetched.state = "rejected"
          /\ \/ StrategyOf(req[r].opts) = "emergency"
             \/ (StrategyOf(req[r].opts) = "stale" /\ ~ UsableStale(r)) )
        => IF MatchesLitDigits(req[r].url, SitesEq)
              THEN /\ req[r].ret.state = "return"
                   /\ req[r].ret.source = "emergency"
                   /\ req[r].ret.data = EmergencyData(req[r].url, req[r].opts)
              ELSE /\ req[r].ret.state = "throw"
                   /\ req[r].ret.error = req[r].fetched.error

\* C4 witness: under strategy 'stale' the stale read found nothing and the
\* call returned the emergency placeholder.
C4_Witness ==
    \E r \in Slots :
        /\ FwfDone(r)
        /\ req[r].fetched.state = "rejected"
        /\ StrategyOf(req[r].opts) = "stale"
        /\ req[r].nStale = 1
        /\ ~ req[r].staleSeen.present
        /\ req[r].ret.source = "emergency"

\* C5: under strategy 'throw' a failure of the fetch function is followed by
\* no stale read and no emergency synthesis, and the call throws the error
\* the fetch function raised.
C5_ThrowPropagatesUnchanged ==
    \A r \in Slots :
        ( /\ FwfDone(r)
          /\ req[r].fetched.state = "rejected"
          /\ StrategyOf(req[r].opts) = "throw" )
        => ( /\ req[r].nStale = 0
             /\ req[r].nEmergency = 0
             /\ metrics.emergencyFallbacks = req[r].metrics0.emergencyFallbacks
             /\ metrics.fallbackHits = req[r].metrics0.fallbackHits
             /\ req[r].ret.state = "throw"
             /\ req[r].ret.error = req[r].fetched.error )

\* C5 witness: a call under strategy 'throw' on a URL with a station, whose
\* fetch function failed, has thrown.
C5_Witness ==
    \E r \in Slots :
        /\ FwfDone(r)
        /\ StrategyOf(req[r].opts) = "throw"
        /\ req[r].fetched.state = "rejected"
        /\ MatchesLitDigits(req[r].url, SitesEq)
        /\ req[r].ret.state = "throw"

\* C6 (as the specification states it): under strategy 'ignore' a failure of
\* the fetch function is followed by exactly one stale read, which accepts
\* an entry up to 24 hours old: if it found one the call returns it as
\* 'stale', otherwise the call throws the error of the fetch function.
C6_IgnoreAcceptsDayOld ==
    \A r \in Slots :
        ( /\ FwfDone(r)
          /\ req[r].fetched.state = "rejected"
          /\ StrategyOf(req[r].opts) = "ignore" )
        => ( /\ req[r].nStale = 1
             /\ IF req[r].staleSeen.present
                   /\ TrueAge(req[r].staleSeen, req[r].staleAt) <= 86400
                   THEN /\ req[r].ret.state = "return"
                        /\ req[r].ret.source = "stale"
                        /\ req[r].ret.data = ResponseJson(req[r].staleSeen.body)
                   ELSE /\ req[r].ret.state = "throw"
                        /\ req[r].ret.error = req[r].fetched.error )

\* C7 (as the specification states it): a call of fetchWithFallback that
\* bypasses the cache reads nothing from it, and when it invokes the fetch
\* function the store holds no entry under the key.
C7_BypassInvalidates ==
    \A r \in Slots :
        ( /\ req[r].op = "fetchWithFallback"
          /\ shouldBypassCache(req[r].opts)
          /\ req[r].pc = "fetch" )
        => ( /\ req[r].nRead = 0
             /\ req[r].nFetch = 1
             /\ ~ Lookup(generateCacheKey(req[r].url, req[r].opts, now)).present )

\* C8: a call of fetchWithFallback throws only when the fetch function
\* rejected, and then it throws the error of the fetch function; a failed
\* match, put or delete of the platform cache never makes the call throw.
C8_OnlyFetchErrorRaised ==
    \A r \in Slots :
        FwfDone(r) =>
          /\ req[r].ret.state \in {"return", "throw"}
          /\ req[r].ret.state = "throw" =>
                /\ req[r].fetched.state = "rejected"
                /\ req[r].ret.error = req[r].fetched.error
                /\ req[r].ret.error \in FetchErrors
          /\ req[r].fetched.state = "resolved" => req[r].ret.state = "return"

\* C8 witness: the cache read and the cache write of a call both failed on
\* the platform, and the call returned the fetched data.
C8_Witness ==
    \E r \in Slots :
        /\ FwfDone(r)
        /\ req[r].nRead = 1
        /\ ~ req[r].seen.present
        /\ req[r].cacheOpFailed
        /\ req[r].lastPut = "failed"
        /\ metrics.errors >= req[r].metrics0.errors + 2
        /\ req[r].ret.state = "return"

\* C9 (as the specification states it): in the retrieval of the water-level
\* tool an upstream failure reaches fetchWithFallback as a rejection of the
\* fetch function; the call does not return 'fresh' and writes nothing to
\* the cache.
C9_UpstreamFailureIsFetchFailure ==
    \A r \in Slots :
        ( /\ FwfDone(r)
          /\ req[r].via = "cacheCurrentWaterLevel"
          /\ req[r].upstream \in UpstreamFailures )
        => ( /\ req[r].fetched.state = "rejected"
             /\ req[r].ret.source # "fresh"
             /\ req[r].nPut = 0 )

\* The log entries written since the call in slot r began.
LoggedSince(r) == { cacheLog[i].action : i \in (req[r].log0 + 1) .. Len(cacheLog) }

\* C10 (as the specification states it): a get whose cache read found an
\* entry past its TTL returns null, counts and logs a stale eviction and no
\* hit, and, unless a platform operation failed, leaves no entry under the
\* key it read.
C10_ExpiredEntryEvicted ==
    \A r \in Slots :
        ( /\ req[r].pc = "done"
          /\ req[r].op = "get"
          /\ req[r].seen.present
          /\ ~ Unexpired(req[r].seen, req[r].seenAt) )
        => ( /\ req[r].ret.state = "return"
             /\ req[r].ret.data = Null
             /\ metrics.staleEntries = req[r].metrics0.staleEntries + 1
             /\ metrics.hits = req[r].metrics0.hits
             /\ "STALE" \in LoggedSince(r)
             /\ "HIT" \notin LoggedSince(r)
             /\ ~ req[r].cacheOpFailed => ~ Lookup(req[r].readKey).present )

----------------------------------------------------------------------------
(* Properties of the adapter operations and of the key and TTL policy *)

\* A finished call of operation op whose result the caller has not taken yet.
OpDone(r, op) == req[r].pc = "done" /\ req[r].op = op

\* The entry stored under the key of the call in slot r at the current instant.
EntryNow(r) == Lookup(generateCacheKey(req[r].url, req[r].opts, now))

AdapterFailed(r) == req[r].cacheOpFailed \/ req[r].serializeFailed

\* C12: a call of get, set or delete always returns and never throws; when
\* the platform cache or a serialization failed during the call, get
\* returns null, set and delete return false, and the call has counted an
\* error and logged an ERROR entry.
C12_AdapterNeverRaises ==
    \A r \in Slots :
        (req[r].pc = "done" /\ req[r].op \in {"get", "set", "delete"}) =>
          /\ req[r].ret.state = "return"
          /\ AdapterFailed(r) =>
                /\ req[r].op = "get" => req[r].ret.data = Null
                /\ req[r].op \in {"set", "delete"} => req[r].ret.ok = FALSE
                /\ metrics.errors > req[r].metrics0.errors
                /\ "ERROR" \in LoggedSince(r)

\* C12 witness: a set whose data could not be serialized has returned false.
C12_Witness ==
    \E r \in Slots :
        /\ OpDone(r, "set")
        /\ req[r].serializeFailed
        /\ req[r].arg = Circular
        /\ req[r].ret.state = "return"
        /\ req[r].ret.ok = FALSE

----------------------------------------------------------------------------
(* generateCacheKey called twice with the same inputs *)

KeyTickSeconds == 20

\* Key inputs: bucket widths absent (0), of one minute, and those of the
\* data categories; with and without categories and suffix.
KeyOptions ==
    { [NoOptions EXCEPT !.timeWindow = w] : w \in {0, 1, 5, 14} }
    \cup { [NoOptions EXCEPT !.timeWindow = 5, !.toolType = "water-level",
                             !.dataType = "current", !.keySuffix = "v2"] }

KeyConfigs ==
    [caller : {"key"}, url : URLs, base : KeyOptions, maxInFlight : {1}]

InitKey ==
    /\ now = StartTime
    /\ store = [k \in {} |-> NoResponse]
    /\ metrics = InitialMetrics
    /\ cacheLog = << >>
    /\ req = [r \in Slots |-> IdleFrame]
    /\ cfg \in KeyConfigs

\* this.generateCacheKey(url, options): the key and the instant of the call
\* are kept in the frame.
GenerateKey(r) ==
    /\ cfg.caller = "key"
    /\ req[r].pc = "idle"
    /\ \A q \in Slots : q < r => req[q].pc # "idle"
    /\ req' = [req EXCEPT ![r] =
                 [NewFrame("generateCacheKey", cfg.url, cfg.base, "none")
                     EXCEPT !.pc = "key",
                            !.ckey = generateCacheKey(cfg.url, cfg.base, now),
                            !.seenAt = now]]
    /\ UNCHANGED << now, store, metrics, cacheLog, cfg >>

KeyTick ==
    /\ now + KeyTickSeconds <= StartTime + MaxElapsed
    /\ now' = now + KeyTickSeconds
    /\ UNCHANGED << store, metrics, cacheLog, req, cfg >>

NextKey ==
    \/ \E r \in Slots : GenerateKey(r)
    \/ KeyTick

SpecKey == InitKey /\ [][NextKey]_vars

\* The bucket width in effect: options.timeWindow when positive, else 5.
BucketWidth(options) == IF options.timeWindow > 0 THEN options.timeWindow ELSE 5

\* floor(now_ms / (bucket_width_minutes * 60000)) at instant t (seconds).
BucketIndex(options, t) == t \div (BucketWidth(options) * 60)

\* C13: two calls of generateCacheKey with the same categories, bucket
\* width, identity and suffix return the same key exactly when their
\* instants have the same bucket index: identical keys within one bucket
\* window, different keys across a bucket boundary.
C13_KeyDependsOnBucketIndex ==
    \A r1, r2 \in Slots :
        (req[r1].pc = "key" /\ req[r2].pc = "key") =>
            ( req[r1].ckey = req[r2].ckey
              <=> BucketIndex(req[r1].opts, req[r1].seenAt)
                    = BucketIndex(req[r2].opts, req[r2].seenAt) )

\* C13 witness: two calls at different instants of one bucket window, and
\* (in another run) two calls on either side of a boundary, are explored.
C13_Witness ==
    /\ req[1].pc = "key" /\ req[2].pc = "key"
    /\ req[1].seenAt < req[2].seenAt
    /\ req[2].seenAt - req[1].seenAt <= KeyTickSeconds
    /\ BucketIndex(req[1].opts, req[1].seenAt) # BucketIndex(req[2].opts, req[2].seenAt)
    /\ req[1].ckey # req[2].ckey

----------------------------------------------------------------------------
(* The TTL policy: getTtlForType, getTimeWindowForType and validateTtl on *)
(* any categories and any TTL                                             *)

ToolCategories == {"", "water-level", "flow-rate", "combined-conditions", "tide-level"}

DataCategories == {"", "current", "historical", "forecast"}

TtlInputs == {-1, 0, 1, 59, 60, 61, 840, 7199, 7200, 7201, 100000}

PolicyConfigs ==
    [caller : {"policy"}, url : {UrlTool},
     base : { [NoOptions EXCEPT !.toolType = tool, !.dataType = data, !.ttl = ttl] :
                tool \in ToolCategories, data \in DataCategories, ttl \in TtlInputs },
     maxInFlight : {1}]

InitPolicy ==
    /\ now = StartTime
    /\ store = [k \in {} |-> NoResponse]
    /\ metrics = InitialMetrics
    /\ cacheLog = << >>
    /\ req = [r \in Slots |-> IdleFrame]
    /\ cfg \in PolicyConfigs

\* The options a category helper builds: timeWindow from
\* getTimeWindowForType(dataType), ttl from
\* validateTtl(options?.ttl || getTtlForType(toolType, dataType)); the key is
\* then generated from these options.
PolicyOptions(options) ==
    [options EXCEPT
        !.timeWindow = getTimeWindowForType(options.dataType),
        !.ttl = validateTtl(IF options.ttl # 0 THEN options.ttl
                            ELSE getTtlForType(options.toolType, options.dataType))]

SelectPolicy(r) ==
    /\ cfg.caller = "policy"
    /\ r = 1
    /\ req[r].pc = "idle"
    /\ req' = [req EXCEPT ![r] =
                 [NewFrame("cacheFromRequest", cfg.url, PolicyOptions(cfg.base), "none")
                     EXCEPT !.pc = "policy",
                            !.ckey = generateCacheKey(cfg.url, PolicyOptions(cfg.base), now)]]
    /\ UNCHANGED << now, store, metrics, cacheLog, cfg >>

\* this.validateTtl(ttl) on the TTL of the run.
ValidateTtl(r) ==
    /\ cfg.caller = "policy"
    /\ r = 1
    /\ req[r].pc = "idle"
    /\ req' = [req EXCEPT ![r] =
                 [NewFrame("validateTtl", cfg.url,
                           [cfg.base EXCEPT !.ttl = validateTtl(cfg.base.ttl)], "none")
                     EXCEPT !.pc = "validated"]]
    /\ UNCHANGED << now, store, metrics, cacheLog, cfg >>

\* this.validateTtl applied to its own result.
ValidateAgain(r) ==
    /\ req[r].pc = "validated"
    /\ req' = [req EXCEPT ![r].pc = "revalidated",
                          ![r].opts.ttl = validateTtl(req[r].opts.ttl)]
    /\ UNCHANGED << now, store, metrics, cacheLog, cfg >>

NextPolicy ==
    \/ \E r \in Slots : SelectPolicy(r)
    \/ \E r \in Slots : ValidateTtl(r)
    \/ \E r \in Slots : ValidateAgain(r)

SpecPolicy == InitPolicy /\ [][NextPolicy]_vars

\* The bucket width the key of a policy frame was generated with.
PolicyWidth(r, w) ==
    req[r].ckey = generateCacheKey(req[r].url, [req[r].opts EXCEPT !.timeWindow = w], now)

ValidateArg(r) == IF req[r].pc = "idle" THEN cfg.base.ttl ELSE req[r].opts.ttl

\* C15: validateTtl returns 60 for every TTL below 60, 7200 for every TTL
\* above 7200, the TTL itself for every TTL from 60 to 7200, and applied to
\* its own result it returns that result.
C15_ValidateTtlClamps ==
    [][ \A r \in Slots :
          (req'[r].pc # req[r].pc /\ req'[r].pc \in {"validated", "revalidated"}) =>
              /\ ValidateArg(r) < TTL_MINIMUM => req'[r].opts.ttl = TTL_MINIMUM
              /\ ValidateArg(r) > TTL_MAXIMUM => req'[r].opts.ttl = TTL_MAXIMUM
              /\ (ValidateArg(r) >= TTL_MINIMUM /\ ValidateArg(r) <= TTL_MAXIMUM)
                    => req'[r].opts.ttl = ValidateArg(r)
              /\ req'[r].pc = "revalidated" => req'[r].opts.ttl = req[r].opts.ttl ]_vars

\* C15 witness: a TTL below the minimum has been validated twice.
C15_Witness ==
    \E r \in Slots :
        /\ req[r].pc = "revalidated"
        /\ cfg.base.ttl < TTL_MINIMUM
        /\ req[r].opts.ttl = TTL_MINIMUM

----------------------------------------------------------------------------
(* The cache service called with TTL overrides outside the accepted range *)

TtlOverrides == {10, 100000}

TtlConfigs ==
    [caller : {"direct", "tool"}, url : {UrlTool},
     base : { [NoOptions EXCEPT !.ttl = ttl] : ttl \in TtlOverrides },
     maxInFlight : {1}]

InitTtl ==
    /\ now = StartTime
    /\ store = [k \in {} |-> NoResponse]
    /\ metrics = InitialMetrics
    /\ cacheLog = << >>
    /\ req = [r \in Slots |-> IdleFrame]
    /\ cfg \in TtlConfigs

SpecTtl == InitTtl /\ [][Next]_vars

\* C16: every entry in the cache carries a TTL (the max-age of its
\* Cache-Control header) from 60 to 7200 seconds, whatever TTL override the
\* call that wrote it was given.
C16_StoredTtlInRange ==
    \A k \in DOMAIN store :
        store[k].present =>
            (store[k].cacheControl >= TTL_MINIMUM /\ store[k].cacheControl <= TTL_MAXIMUM)

----------------------------------------------------------------------------
(* Two calls of fetchWithFallback in flight at once on one identity *)

ConcurrentConfigs ==
    [caller : {"concurrent"}, url : {UrlTool}, base : {[NoOptions EXCEPT !.ttl = 60]},
     maxInFlight : {2}]

InitConcurrent ==
    /\ now = StartTime
    /\ store = [k \in {} |-> NoResponse]
    /\ metrics = InitialMetrics
    /\ cacheLog = << >>
    /\ req = [r \in Slots |-> IdleFrame]
    /\ cfg \in ConcurrentConfigs

\* cacheService.fetchWithFallback(url, fetchFn, options) with the options of
\* the run: no bypass signal, the default fallback strategy.
CallFetchWithFallbackConcurrently(r) ==
    /\ CanStart(r)
    /\ cfg.caller = "concurrent"
    /\ Becomes(r, FetchWithFallbackPrefix([Ctx(r) EXCEPT
                     !.f = NewFrame("fetchWithFallback", cfg.url, cfg.base, "generic")],
                  now))
    /\ UNCHANGED << now, store, cfg >>

NextConcurrent ==
    \/ \E r \in Slots : CallFetchWithFallbackConcurrently(r)
    \/ \E r \in Slots : StepMatch(r)
    \/ \E r \in Slots : StepEvict(r)
    \/ \E r \in Slots : StepFetch(r)
    \/ \E r \in Slots : StepPut(r)
    \/ \E r \in Slots : StepStaleRead(r)
    \/ \E r \in Slots : Return(r)
    \/ Tick

SpecConcurrent == InitConcurrent /\ [][NextConcurrent]_vars

\* Two finished calls of fetchWithFallback with the same identity,
\* categories and time bucket that both missed the cache and whose fetch
\* functions both resolved.
BothMissed(r1, r2) ==
    /\ r1 # r2
    /\ FwfDone(r1) /\ FwfDone(r2)
    /\ req[r1].url = req[r2].url
    /\ req[r1].opts.toolType = req[r2].opts.toolType
    /\ req[r1].opts.dataType = req[r2].opts.dataType
    /\ req[r1].readKey = req[r2].readKey
    /\ req[r1].ckey = req[r1].readKey /\ req[r2].ckey = req[r2].readKey
    /\ req[r1].nRead = 1 /\ req[r2].nRead = 1
    /\ ~ req[r1].seen.present /\ ~ req[r2].seen.present
    /\ req[r1].fetched.state = "resolved" /\ req[r2].fetched.state = "resolved"

\* The call of r1 and r2 whose set completed last.
LastSetter(r1, r2) == IF req[r1].putSeq > req[r2].putSeq THEN r1 ELSE r2

\* C17: when two concurrent calls of fetchWithFallback for one key both miss
\* the cache and both fetch successfully, each returns source 'fresh' with
\* the payload its own fetch function resolved to, and once both sets have
\* completed the key holds the entry of the set that completed last.
C17_ConcurrentMissesBothFresh ==
    \A r1, r2 \in Slots :
        BothMissed(r1, r2) =>
            /\ \A r \in {r1, r2} :
                  /\ req[r].ret.state = "return"
                  /\ req[r].ret.source = "fresh"
                  /\ req[r].ret.data = req[r].fetched.value
            /\ (req[r1].lastPut = "ok" /\ req[r2].lastPut = "ok") =>
                  /\ Lookup(req[r1].ckey).present
                  /\ Lookup(req[r1].ckey) = req[LastSetter(r1, r2)].resp
                  /\ Lookup(req[r1].ckey).payload = req[LastSetter(r1, r2)].fetched.value

\* C17 witness: both calls missed, fetched different payloads and stored
\* them; the entry is that of the second set.
C17_Witness ==
    \E r1, r2 \in Slots :
        /\ BothMissed(r1, r2)
        /\ req[r1].lastPut = "ok" /\ req[r2].lastPut = "ok"
        /\ req[r1].putSeq < req[r2].putSeq
        /\ req[r1].fetched.value # req[r2].fetched.value
        /\ req[r1].ret.source = "fresh" /\ req[r2].ret.source = "fresh"
        /\ Lookup(req[r1].ckey).payload = req[r2].fetched.value

----------------------------------------------------------------------------
(* The tools getPotomacGageDepth and getPotomacFlow: one invocation issues  *)
(* three retrievals through the category helpers and awaits them together. *)
(* Frame 0 is the invocation, frames 1 to 3 its retrievals.  The           *)
(* retrievals use different keys; all three are in flight from the start,  *)
(* and the exploration lets their awaited operations settle in the order   *)
(* of issue.                                                               *)

ToolSlots == {0} \cup Retrievals

\* What the upstream source does to one request of a tool.
ToolOutcomes == {"reading", "timeout"}

\* The headers of the request the tool is invoked with.
ToolRequests ==
    { NoHeaders,
      [NoHeaders EXCEPT !.cache_control = << "n", "o", "-", "c", "a", "c", "h", "e" >>],
      [NoHeaders EXCEPT !.x_force_refresh = << "t", "r", "u", "e" >>] }

ToolConfigs ==
    [caller : ToolNames, url : {UrlTool}, base : {NoOptions}, maxInFlight : {3}]

InitTool ==
    /\ now = StartTime
    /\ store = [k \in {} |-> NoResponse]
    /\ metrics = InitialMetrics
    /\ cacheLog = << >>
    /\ req = [r \in ToolSlots |-> IdleFrame]
    /\ cfg \in ToolConfigs

\* The record extractCacheHeaders returns, read as CacheOptions: its keys are
\* header names ('cache-control', 'x-force-refresh', ...), so ttl,
\* forceRefresh, requestHeaders and every other option are undefined.
HeadersAsOptions(headers) == NoOptions

ToolType(tool) == IF tool = "getPotomacGageDepth" THEN "water-level" ELSE "flow-rate"

\* The data category of retrieval 1 to 3: the helpers of the 90-minute series
\* use 'current'.
DataType(category) == IF category = 2 THEN "historical" ELSE "current"

\* cacheCurrentWaterLevel, cacheHistoricalWaterLevel, cache90MinuteWaterLevel
\* and their flow-rate counterparts: the options handed to fetchWithCache.
HelperOptions(options, tool, category) ==
    [options EXCEPT
        !.toolType = ToolType(tool),
        !.dataType = DataType(category),
        !.timeWindow = getTimeWindowForType(DataType(category)),
        !.ttl = validateTtl(IF options.ttl # 0 THEN options.ttl
                            ELSE getTtlForType(ToolType(tool), DataType(category)))]

\* The fetch function of a retrieval, applied to what the upstream source did.
FetchFn(fn, outcome) ==
    CASE fn = "getCurrent" -> getCurrentWaterLevel(outcome)
      [] fn = "getHistoricalPoints" -> getHistoricalWaterLevelPoints(outcome)
      [] OTHER -> get90MinuteWaterLevelPoints(outcome)

\* One element of the Promise.all array: the helper runs on a new service
\* with counters m and log l, up to its first await.
IssueRetrieval(m, l, tool, category, headers, t) ==
    FetchWithFallbackPrefix(
        [f |-> [IdleFrame EXCEPT
                   !.op = "fetchWithFallback",
                   !.url = ToolUrl(tool, category),
                   !.opts = HelperOptions(HeadersAsOptions(headers), tool, category),
                   !.fn = CASE category = 1 -> "getCurrent"
                            [] category = 2 -> "getHistoricalPoints"
                            [] OTHER -> "get90MinutePoints",
                   !.via = "helper"],
         m |-> m, l |-> l],
        t)

Issued(c1, c2, c3, headers) ==
    /\ req' = [r \in ToolSlots |->
                 CASE r = 1 -> c1.f
                   [] r = 2 -> c2.f
                   [] r = 3 -> c3.f
                   [] OTHER -> [IdleFrame EXCEPT !.pc = "awaitAll", !.op = cfg.caller,
                                                 !.opts.requestHeaders = headers]]
    /\ metrics' = c3.m
    /\ cacheLog' = c3.l

IssueThird(c1, c2, headers) ==
    Issued(c1, c2, IssueRetrieval(c2.m, c2.l, cfg.caller, 3, headers, now), headers)

IssueSecond(c1, headers) ==
    IssueThird(c1, IssueRetrieval(c1.m, c1.l, cfg.caller, 2, headers, now), headers)

\* getPotomacGageDepth(params, request) / getPotomacFlow(params, request) up
\* to the await of Promise.all: new services, then the three retrievals are
\* issued one after the other.
ToolStart ==
    /\ cfg.caller \in ToolNames
    /\ req[0].pc = "idle"
    /\ \E headers \in ToolRequests :
          IssueSecond(IssueRetrieval(InitialMetrics, << >>, cfg.caller, 1, headers, now),
                      headers)
    /\ UNCHANGED << now, store, cfg >>

\* The awaited operation of retrieval r is the next to settle.
Turn(r) == \A q \in Retrievals : q < r => req[q].pc = "settled"

\* The fetch function of a retrieval settles.
ToolStepFetch(r) ==
    /\ Turn(r)
    /\ req[r].pc = "fetch"
    /\ \E outcome \in ToolOutcomes :
          Becomes(r, AfterFetch([Ctx(r) EXCEPT !.f.upstream = outcome],
                                FetchFn(req[r].fn, outcome), now))
    /\ UNCHANGED << now, store, cfg >>

\* The promise of one retrieval settles.  getPotomacFlow wraps each helper
\* call: when it throws, the fetch function is called directly.
ToolSettle(r) ==
    /\ Turn(r)
    /\ req[0].pc = "awaitAll"
    /\ req[r].pc = "done"
    /\ IF cfg.caller = "getPotomacFlow" /\ req[r].ret.state = "throw"
          THEN \E outcome \in ToolOutcomes :
                  req' = [req EXCEPT ![r].pc = "settled",
                                     ![r].nFetch = @ + 1,
                                     ![r].upstream = outcome,
                                     ![r].ret = Returned("direct",
                                                   FetchFn(req[r].fn, outcome).value, 0)]
       ELSE req' = [req EXCEPT ![r].pc = "settled"]
    /\ UNCHANGED << now, store, metrics, cacheLog, cfg >>

\* Variant of AllSettled: one settled retrieval is enough.
AllSettled_Any == \E r \in Retrievals : req[r].pc = "settled"

\* Promise.all resolves: every retrieval has settled.
AllSettled == \A r \in Retrievals : req[r].pc = "settled"

\* Promise.all rejects: a retrieval has thrown.
SomeThrown == \E r \in Retrievals : req[r].pc = "settled" /\ req[r].ret.state = "throw"

\* The station a tool reads.
StationOf(tool) ==
    IF tool = "getPotomacGageDepth" THEN "01647600 (Georgetown)"
    ELSE "01646500 (Little Falls)"

\* The text of a tool, by its parts: the number after "Current:", the
\* timestamp, the minutes of "(Data is N minutes old ..." when the reading is
\* stale, whether the 7-day range and the trend are shown; or the message
\* that the station named is unavailable.
NoText ==
    [kind |-> "none", station |-> "", current |-> << >>,
     timestamp |-> ToISOString(0), staleShown |-> FALSE, staleMinutes |-> << >>,
     rangeShown |-> FALSE, trendShown |-> FALSE, direction |-> "",
     changeText |-> ""]

\* Variant of UnavailableText: the message names no station.
UnavailableText_NoStation(tool) == [NoText EXCEPT !.kind = "unavailable"]

UnavailableText(tool) ==
    [NoText EXCEPT !.kind = "unavailable", !.station = StationOf(tool)]

\* The message of the catch block: the error message and the advice to check
\* "if the USGS station is operational"; it names no station.
ErrorText == [NoText EXCEPT !.kind = "error"]

\* The tool after the await of Promise.all: the snapshot from the three
\* results; the message that no current reading is available; or, from the
\* catch block, the error message.  In each case the content returned is one
\* text; ret.error holds the station that the text of a failure names.
ToolFinish ==
    /\ req[0].pc = "awaitAll"
    /\ AllSettled \/ SomeThrown
    /\ req' = [req EXCEPT ![0].pc = "done",
                          ![0].ret =
                             IF SomeThrown
                                THEN [Returned("error", Null, 0)
                                         EXCEPT !.error = ErrorText.station]
                             ELSE IF req[1].ret.data = Null
                                     THEN [Returned("unavailable", Null, 0)
                                             EXCEPT !.error =
                                                UnavailableText(cfg.caller).station]
                             ELSE Returned("snapshot", req[1].ret.data, 0)]
    /\ UNCHANGED << now, store, metrics, cacheLog, cfg >>

\* The tool returns to its caller.
ToolReturn ==
    /\ req[0].pc = "done"
    /\ req' = [r \in ToolSlots |-> IdleFrame]
    /\ UNCHANGED << now, store, metrics, cacheLog, cfg >>

NextTool ==
    \/ ToolStart
    \/ \E r \in Retrievals : Turn(r) /\ StepMatch(r)
    \/ \E r \in Retrievals : ToolStepFetch(r)
    \/ \E r \in Retrievals : Turn(r) /\ StepPut(r)
    \/ \E r \in Retrievals : ToolSettle(r)
    \/ ToolFinish
    \/ ToolReturn

SpecTool == InitTool /\ [][NextTool]_vars

C19_FanOutFanIn ==
    /\ (req[0].pc # "idle" \/ \E r \in Retrievals : req[r].pc # "idle")
          => \A r \in Retrievals : req[r].pc # "idle"
    /\ (req[0].pc = "done" /\ req[0].ret.source \in {"snapshot", "unavailable"})
          => \A r \in Retrievals : req[r].pc = "settled"

\* C19 witness: a snapshot was computed from three retrievals that all went
\* to the upstream source.
C19_Witness ==
    /\ req[0].pc = "done"
    /\ req[0].ret.source = "snapshot"
    /\ \A r \in Retrievals : req[r].pc = "settled" /\ req[r].nFetch = 1

\* C20: when the request of a tool invocation carries a refresh signal,
\* every retrieval of the invocation bypasses the cache: it invokes its
\* fetch function and does not return what the cache holds.
C20_RefreshSignalBypasses ==
    (req[0].pc # "idle" /\ shouldRefreshFromHeaders(req[0].opts.requestHeaders)) =>
        \A r \in Retrievals :
            req[r].pc \in {"done", "settled"} =>
                /\ req[r].nFetch = 1
                /\ req[r].ret.source # "cache"

----------------------------------------------------------------------------
(* Derived metrics: what getPotomacGageDepth and getPotomacFlow compute    *)
(* from the three results of their retrievals, and the text they return.   *)
(* A water level is kept in hundredths of a foot, a flow in whole CFS; the *)
(* rounding of binary floating point is not modelled.                      *)

\* A number, NaN, or an infinity (v is then its sign).
Num(v) == [nan |-> FALSE, inf |-> FALSE, v |-> v]

NaN == [nan |-> TRUE, inf |-> FALSE, v |-> 0]

Infinity(sign) == [nan |-> FALSE, inf |-> TRUE, v |-> sign]

isNaN(x) == x.nan

\* One point of a series, and the current reading (null when unavailable).
Point(x, t) == [value |-> x, timestamp |-> ToISOString(t)]

NoReading == [isNull |-> TRUE, value |-> NaN, timestamp |-> ToISOString(0)]

Reading(x, t) == [isNull |-> FALSE, value |-> x, timestamp |-> ToISOString(t)]

\* Math.min(...values) and Math.max(...values) of a non-empty list.
MathMin(values) ==
    CHOOSE m \in {values[i] : i \in 1..Len(values)} :
        \A i \in 1..Len(values) : m <= values[i]

MathMax(values) ==
    CHOOSE m \in {values[i] : i \in 1..Len(values)} :
        \A i \in 1..Len(values) : m >= values[i]

\* points.filter(point => !isNaN(point.value))
ValidPoints(points) == SelectSeq(points, LAMBDA p : ~isNaN(p.value))

ValuesOf(points) == [i \in 1..Len(points) |-> points[i].value.v]

\* Variant of SevenDayRange: the current value takes part in the range.
SevenDayRange_WithCurrent(currentReading, historicalData) ==
    IF Len(historicalData) > 0 /\ Len(ValidPoints(historicalData)) > 0
       THEN [min |-> Min(currentReading.value.v,
                         MathMin(ValuesOf(ValidPoints(historicalData)))),
             max |-> Max(currentReading.value.v,
                         MathMax(ValuesOf(ValidPoints(historicalData))))]
       ELSE [min |-> currentReading.value.v, max |-> currentReading.value.v]

\* The 7-day minimum and maximum: those of the valid points of the 7-day
\* series, and the current value when there is none.
SevenDayRange(currentReading, historicalData) ==
    IF Len(historicalData) > 0 /\ Len(ValidPoints(historicalData)) > 0
       THEN [min |-> MathMin(ValuesOf(ValidPoints(historicalData))),
             max |-> MathMax(ValuesOf(ValidPoints(historicalData)))]
       ELSE [min |-> currentReading.value.v, max |-> currentReading.value.v]

\* validPoints.sort((a, b) => time(a) - time(b))[0]: the first, in the order
\* of the list, of the points with the least time.
OldestPoint(points) ==
    points[CHOOSE i \in 1..Len(points) :
             \A j \in 1..Len(points) :
                \/ DateParse(points[i].timestamp) < DateParse(points[j].timestamp)
                \/ /\ DateParse(points[i].timestamp) = DateParse(points[j].timestamp)
                   /\ i <= j]

\* The least change that counts as a trend: 0.01 ft of water level, 10 CFS
\* of flow.
TrendThresholdFt == 1

TrendThresholdCfs == 10

TrendThreshold(tool) ==
    IF tool = "getPotomacGageDepth" THEN TrendThresholdFt ELSE TrendThresholdCfs

Abs(x) == IF x < 0 THEN 0 - x ELSE x

\* Variant of TrendDirection: a change of exactly the threshold is stable.
TrendDirection_Inclusive(tool, change) ==
    IF Abs(change) <= TrendThreshold(tool) THEN "stable"
    ELSE IF change > 0 THEN "rising" ELSE "falling"

\* Trend direction from the change since the baseline.
TrendDirection(tool, change) ==
    IF Abs(change) < TrendThreshold(tool) THEN "stable"
    ELSE IF change > 0 THEN "rising" ELSE "falling"

NoTrend == [direction |-> "stable", change |-> 0, hasBaseline |-> FALSE, baseline |-> 0]

\* The 90-minute trend: against the oldest valid point of the 90-minute
\* series; stable, 0 and no baseline when there is none.
Trend(tool, currentReading, ninetyMinuteData) ==
    IF Len(ninetyMinuteData) > 0 /\ Len(ValidPoints(ninetyMinuteData)) > 0
       THEN [direction |-> TrendDirection(tool,
                              currentReading.value.v
                                 - OldestPoint(ValidPoints(ninetyMinuteData)).value.v),
             change |-> currentReading.value.v
                           - OldestPoint(ValidPoints(ninetyMinuteData)).value.v,
             hasBaseline |-> TRUE,
             baseline |-> OldestPoint(ValidPoints(ninetyMinuteData)).value.v]
       ELSE NoTrend

\* Staleness in the tools: ageMinutes = (now - readingTime) / (1000 * 60);
\* isStale = ageMinutes > 30.  The age is kept in seconds, so the comparison
\* of the quotient is the comparison of the age with 30 * 60.
ToolStaleMinutes == 30

AgeSeconds(timestamp, t) == t - DateParse(timestamp)

isStale(timestamp, t) == AgeSeconds(timestamp, t) > ToolStaleMinutes * 60

\* Math.round(ageMinutes) of an age that is not negative.
RoundedAgeMinutes(timestamp, t) == (AgeSeconds(timestamp, t) + 30) \div 60

\* USGSApiService.isDataStale(dataTime): dataTime < now - 30 * 60 * 1000.
ClientStaleMinutes == 30

isDataStale(timestamp, t) == DateParse(timestamp) < t - ClientStaleMinutes * 60

\* Decimal digits of a natural number, and the number of a run of digits.
DigitChars == << "0", "1", "2", "3", "4", "5", "6", "7", "8", "9" >>

RECURSIVE DecimalDigits(_)
DecimalDigits(n) ==
    IF n < 10 THEN << DigitChars[n + 1] >>
    ELSE DecimalDigits(n \div 10) \o << DigitChars[(n % 10) + 1] >>

DigitValue(ch) == (CHOOSE d \in 1..10 : DigitChars[d] = ch) - 1

RECURSIVE ParseDigits(_)
ParseDigits(str) ==
    IF Len(str) = 0 THEN 0
    ELSE 10 * ParseDigits(SubSeq(str, 1, Len(str) - 1)) + DigitValue(str[Len(str)])

\* value.toFixed(1) of a water level: a minus sign for a negative value, the
\* value rounded to tenths, a point and one decimal.
ToFixed1(v) ==
    (IF v < 0 THEN << "-" >> ELSE << >>)
        \o DecimalDigits(((Abs(v) + 5) \div 10) \div 10)
        \o << "." >> \o DecimalDigits(((Abs(v) + 5) \div 10) % 10)

\* value.toLocaleString() of a whole flow: groups of three digits set off by
\* commas, after a minus sign for a negative value.
RECURSIVE GroupThousands(_)
GroupThousands(n) ==
    IF n < 1000 THEN DecimalDigits(n)
    ELSE GroupThousands(n \div 1000) \o << "," >>
            \o DecimalDigits((n % 1000) \div 100)
            \o DecimalDigits((n % 100) \div 10)
            \o DecimalDigits(n % 10)

ToLocaleString(v) ==
    (IF v < 0 THEN << "-" >> ELSE << >>) \o GroupThousands(Abs(v))

FormatCurrent(tool, v) ==
    IF tool = "getPotomacGageDepth" THEN ToFixed1(v) ELSE ToLocaleString(v)

NoSnapshot ==
    [value |-> 0, timestamp |-> ToISOString(0), seven_day_min |-> 0,
     seven_day_max |-> 0, stale |-> FALSE, trend |-> NoTrend]

\* The snapshot of a tool: current value, 7-day range, staleness and trend.
Snapshot(tool, currentReading, historicalData, ninetyMinuteData, t) ==
    [value |-> currentReading.value.v,
     timestamp |-> currentReading.timestamp,
     seven_day_min |-> SevenDayRange(currentReading, historicalData).min,
     seven_day_max |-> SevenDayRange(currentReading, historicalData).max,
     stale |-> isStale(currentReading.timestamp, t),
     trend |-> Trend(tool, currentReading, ninetyMinuteData)]

\* The change description of the trend text: the signed change, or "stable
\* from 90 min ago" unless Math.abs(change) > threshold.
ChangeText(tool, change) ==
    IF Abs(change) > TrendThreshold(tool) THEN "change from 90 min ago"
    ELSE "stable from 90 min ago"

SnapshotText(tool, s, t) ==
    [NoText EXCEPT
        !.kind = "data",
        !.current = FormatCurrent(tool, s.value),
        !.timestamp = s.timestamp,
        !.staleShown = s.stale,
        !.staleMinutes = IF s.stale THEN DecimalDigits(RoundedAgeMinutes(s.timestamp, t))
                         ELSE << >>,
        !.rangeShown = s.seven_day_max > s.seven_day_min,
        !.trendShown = s.trend.hasBaseline,
        !.direction = IF s.trend.hasBaseline THEN s.trend.direction ELSE "",
        !.changeText = IF s.trend.hasBaseline THEN ChangeText(tool, s.trend.change)
                       ELSE ""]

\* The tool after its retrievals: without a current reading, the message
\* that the station is unavailable; otherwise the snapshot and its text.  In
\* either case the content is a list of one text.
ToolResponse(tool, currentReading, historicalData, ninetyMinuteData, t) ==
    IF currentReading.isNull
       THEN [content |-> << UnavailableText(tool) >>, hasSnapshot |-> FALSE,
             snapshot |-> NoSnapshot]
       ELSE [content |-> << SnapshotText(tool,
                               Snapshot(tool, currentReading, historicalData,
                                        ninetyMinuteData, t), t) >>,
             hasSnapshot |-> TRUE,
             snapshot |-> Snapshot(tool, currentReading, historicalData,
                                   ninetyMinuteData, t)]

\* get_potomac_conditions reads the text of a tool back: the number after
\* "Current:" has to be a run of the characters [\d.] (water level) or [\d,]
\* (flow) up to the unit, else nothing is extracted; the age is the number
\* of "(Data is N minutes old", or 0; stale = ageMinutes > 30.
ConditionsStaleMinutes == 30

NumberClass(tool) ==
    IF tool = "getPotomacGageDepth" THEN Digits \cup {"."} ELSE Digits \cup {","}

CurrentMatch(tool, text) ==
    /\ text.kind = "data"
    /\ Len(text.current) > 0
    /\ \A i \in 1..Len(text.current) : text.current[i] \in NumberClass(tool)

NoExtract == [isNull |-> TRUE, ageMinutes |-> 0, stale |-> FALSE]

ExtractFromText(tool, text) ==
    IF ~CurrentMatch(tool, text) THEN NoExtract
    ELSE [isNull |-> FALSE,
          ageMinutes |-> IF text.staleShown THEN ParseDigits(text.staleMinutes) ELSE 0,
          stale |-> (IF text.staleShown THEN ParseDigits(text.staleMinutes) ELSE 0)
                        > ConditionsStaleMinutes]

\* The runs of the derived metrics: a tool, the current reading with its age
\* at the time of the call, the 7-day series and the 90-minute series, as the
\* retrievals returned them.
MaxSeries == 2

Series(points) == UNION { [1..n -> points] : n \in 0..MaxSeries }

AgeChoices == {0, 1799, 1800, 1801, 1829, 1830, 2700}

CurrentValues(tool) == IF tool = "getPotomacGageDepth" THEN {245, -30} ELSE {5000}

SevenDayValues(tool) ==
    IF tool = "getPotomacGageDepth" THEN {Num(189), Num(312), NaN}
    ELSE {Num(4200), Num(6100), NaN}

NinetyMinuteValues(tool) ==
    IF tool = "getPotomacGageDepth"
       THEN {Num(237), Num(244), Num(245), Num(250), NaN}
       ELSE {Num(4990), Num(4991), Num(5000), Num(5020), NaN}

SevenDayPoints(tool) == { Point(x, StartTime - 86400) : x \in SevenDayValues(tool) }

NinetyMinutePoints(tool) ==
    { Point(x, StartTime - d) : x \in NinetyMinuteValues(tool), d \in {5400, 900} }

SnapshotRun(tool, current, age, sevenDay, ninetyMin) ==
    [caller |-> "snapshot", tool |-> tool, current |-> current, age |-> age,
     sevenDay |-> sevenDay, ninetyMin |-> ninetyMin]

SnapshotConfigs ==
    UNION { { SnapshotRun(tool, NoReading, 0, << >>, << >>) }
            \cup { SnapshotRun(tool, Reading(Num(v), StartTime - age), age, << >>, << >>) :
                      v \in CurrentValues(tool), age \in AgeChoices }
            \cup { SnapshotRun(tool, Reading(Num(v), StartTime), 0, s, << >>) :
                      v \in CurrentValues(tool), s \in Series(SevenDayPoints(tool)) }
            \cup { SnapshotRun(tool, Reading(Num(v), StartTime), 0, << >>, s) :
                      v \in CurrentValues(tool), s \in Series(NinetyMinutePoints(tool)) }
          : tool \in ToolNames }

NoToolResponse == [content |-> << >>, hasSnapshot |-> FALSE, snapshot |-> NoSnapshot]

SnapshotFrame ==
    [pc |-> "idle", clientStale |-> FALSE, response |-> NoToolResponse,
     extracted |-> NoExtract]

InitSnapshot ==
    /\ now = StartTime
    /\ store = [k \in {} |-> NoResponse]
    /\ metrics = InitialMetrics
    /\ cacheLog = << >>
    /\ req = [r \in Slots |-> SnapshotFrame]
    /\ cfg \in SnapshotConfigs

\* The client parses the current reading: stale: this.isDataStale(new
\* Date(timestamp)).
ParseCurrent(r) ==
    /\ r = 1
    /\ req[r].pc = "idle"
    /\ ~cfg.current.isNull
    /\ req' = [req EXCEPT ![r].pc = "parsed",
                          ![r].clientStale = isDataStale(cfg.current.timestamp, now)]
    /\ UNCHANGED << now, store, metrics, cacheLog, cfg >>

\* The tool, from the results of its retrievals to its return.
ComputeSnapshot(r) ==
    /\ r = 1
    /\ req[r].pc = "parsed" \/ (req[r].pc = "idle" /\ cfg.current.isNull)
    /\ req' = [req EXCEPT ![r].pc = "snapshot",
                          ![r].response = ToolResponse(cfg.tool, cfg.current,
                                             cfg.sevenDay, cfg.ninetyMin, now)]
    /\ UNCHANGED << now, store, metrics, cacheLog, cfg >>

\* get_potomac_conditions extracts the data of the tool's text.
ExtractText(r) ==
    /\ req[r].pc = "snapshot"
    /\ req' = [req EXCEPT ![r].pc = "extracted",
                          ![r].extracted = ExtractFromText(cfg.tool,
                                              req[r].response.content[1])]
    /\ UNCHANGED << now, store, metrics, cacheLog, cfg >>

NextSnapshot ==
    \/ \E r \in Slots : ParseCurrent(r)
    \/ \E r \in Slots : ComputeSnapshot(r)
    \/ \E r \in Slots : ExtractText(r)

SpecSnapshot == InitSnapshot /\ [][NextSnapshot]_vars

\* C21: a reading is stale exactly when it is more than 30 minutes old (not
\* at exactly 30 minutes, stale at 30 minutes and 1 second), in each place
\* that computes staleness: the client when it parses the reading, the tool
\* when it builds the snapshot, and get_potomac_conditions when it reads the
\* tool's text.
C21_StaleIffOlderThan30Minutes ==
    \A r \in Slots :
        /\ req[r].pc \in {"parsed", "snapshot", "extracted"} /\ ~cfg.current.isNull
              => (req[r].clientStale <=> cfg.age > 30 * 60)
        /\ req[r].pc \in {"snapshot", "extracted"} /\ req[r].response.hasSnapshot
              => (req[r].response.snapshot.stale <=> cfg.age > 30 * 60)
        /\ req[r].pc = "extracted" /\ ~req[r].extracted.isNull
              => (req[r].extracted.stale <=> cfg.age > 30 * 60)

\* The valid readings of the 90-minute series of the run, and those of its
\* 7-day series.
NinetyMinuteReadings ==
    { cfg.ninetyMin[i] : i \in { j \in 1..Len(cfg.ninetyMin) : ~cfg.ninetyMin[j].value.nan } }

SevenDayReadings ==
    { cfg.sevenDay[i].value.v : i \in { j \in 1..Len(cfg.sevenDay) : ~cfg.sevenDay[j].value.nan } }

\* C22: with readings in the 90-minute series, the baseline is the value of
\* a reading with the earliest timestamp, the delta is the current value
\* minus the baseline, and the direction is stable when |delta| is below the
\* threshold (0.01 ft, 10 CFS), else rising for a positive delta and falling
\* for a negative one; without readings the trend is stable with delta 0 and
\* no baseline.
C22_TrendFromEarliestReading ==
    \A r \in Slots :
        (req[r].pc \in {"snapshot", "extracted"} /\ req[r].response.hasSnapshot) =>
            IF NinetyMinuteReadings = {}
               THEN /\ req[r].response.snapshot.trend.direction = "stable"
                    /\ req[r].response.snapshot.trend.change = 0
                    /\ ~req[r].response.snapshot.trend.hasBaseline
               ELSE /\ req[r].response.snapshot.trend.hasBaseline
                    /\ \E p \in NinetyMinuteReadings :
                          /\ \A q \in NinetyMinuteReadings :
                                DateParse(p.timestamp) <= DateParse(q.timestamp)
                          /\ req[r].response.snapshot.trend.baseline = p.value.v
                    /\ req[r].response.snapshot.trend.change =
                          cfg.current.value.v - req[r].response.snapshot.trend.baseline
                    /\ req[r].response.snapshot.trend.direction =
                          (IF Abs(req[r].response.snapshot.trend.change)
                                 < (IF cfg.tool = "getPotomacGageDepth" THEN 1 ELSE 10)
                              THEN "stable"
                           ELSE IF req[r].response.snapshot.trend.change > 0
                              THEN "rising" ELSE "falling")

\* C22 witness: a snapshot whose 90-minute series lists a later reading
\* before the earliest one, and whose delta is exactly the threshold.
C22_Witness ==
    \E r \in Slots :
        /\ req[r].pc = "snapshot"
        /\ Len(cfg.ninetyMin) = 2
        /\ ~cfg.ninetyMin[1].value.nan /\ ~cfg.ninetyMin[2].value.nan
        /\ DateParse(cfg.ninetyMin[2].timestamp) < DateParse(cfg.ninetyMin[1].timestamp)
        /\ cfg.ninetyMin[1].value.v # cfg.ninetyMin[2].value.v
        /\ req[r].response.snapshot.trend.baseline = cfg.ninetyMin[2].value.v
        /\ req[r].response.snapshot.trend.change = TrendThreshold(cfg.tool)
        /\ req[r].response.snapshot.trend.direction = "rising"

\* C23: seven_day_min and seven_day_max are the least and the greatest value
\* of the readings of the 7-day series that passed numeric validation, and
\* both are the current value when there is no such reading.
C23_SevenDayMinMax ==
    \A r \in Slots :
        (req[r].pc \in {"snapshot", "extracted"} /\ req[r].response.hasSnapshot) =>
            IF SevenDayReadings = {}
               THEN /\ req[r].response.snapshot.seven_day_min = cfg.current.value.v
                    /\ req[r].response.snapshot.seven_day_max = cfg.current.value.v
               ELSE /\ req[r].response.snapshot.seven_day_min \in SevenDayReadings
                    /\ req[r].response.snapshot.seven_day_max \in SevenDayReadings
                    /\ \A v \in SevenDayReadings :
                          /\ req[r].response.snapshot.seven_day_min <= v
                          /\ req[r].response.snapshot.seven_day_max >= v

\* C23 witness: a snapshot of a 7-day series with a reading that failed
\* validation and a valid one, whose range is that of the valid one and not
\* the current value.
C23_Witness ==
    \E r \in Slots :
        /\ req[r].pc = "snapshot"
        /\ Len(cfg.sevenDay) = 2
        /\ cfg.sevenDay[1].value.nan /\ ~cfg.sevenDay[2].value.nan
        /\ req[r].response.snapshot.seven_day_min = cfg.sevenDay[2].value.v
        /\ req[r].response.snapshot.seven_day_min # cfg.current.value.v

----------------------------------------------------------------------------
(* USGSApiService in detail: the four read operations on the raw values of *)
(* the upstream body                                                       *)

InfinityLit == << "I", "n", "f", "i", "n", "i", "t", "y" >>

StartsWith(str, p, lit) ==
    /\ p + Len(lit) - 1 <= Len(str)
    /\ \A j \in 1..Len(lit) : str[p + j - 1] = lit[j]

SignLen(str) == IF Len(str) > 0 /\ str[1] \in {"-", "+"} THEN 1 ELSE 0

SignOf(str) == IF Len(str) > 0 /\ str[1] = "-" THEN 0 - 1 ELSE 1

IntDigits(str) == DigitRun(str, SignLen(str) + 1)

FracDigits(str) ==
    IF /\ SignLen(str) + Len(IntDigits(str)) + 1 <= Len(str)
       /\ str[SignLen(str) + Len(IntDigits(str)) + 1] = "."
       THEN DigitRun(str, SignLen(str) + Len(IntDigits(str)) + 2)
       ELSE << >>

\* The first two decimals, in hundredths.
Hundredths(digits) ==
    IF Len(digits) = 0 THEN 0
    ELSE IF Len(digits) = 1 THEN 10 * DigitValue(digits[1])
    ELSE 10 * DigitValue(digits[1]) + DigitValue(digits[2])

\* parseFloat(str), in hundredths: the longest prefix that is a decimal
\* literal (a sign, then "Infinity" or digits with an optional fraction);
\* NaN when there is none.  Exponents and leading white space are not
\* modelled.
parseFloat(str) ==
    IF StartsWith(str, SignLen(str) + 1, InfinityLit) THEN Infinity(SignOf(str))
    ELSE IF Len(IntDigits(str)) = 0 /\ Len(FracDigits(str)) = 0 THEN NaN
    ELSE Num(SignOf(str) * (100 * ParseDigits(IntDigits(str)) + Hundredths(FracDigits(str))))

\* parseHistoricalWaterLevelResponse(response) and
\* parseHistoricalFlowRateResponse(response): the values parsed, those that
\* are NaN filtered out; the empty list without values.
parseHistoricalWaterLevelResponse(body, values) ==
    IF body # "reading" \/ Len(values) = 0 THEN << >>
    ELSE ValidPoints([i \in 1..Len(values) |->
                        [value |-> parseFloat(values[i].value),
                         timestamp |-> values[i].dateTime]])

\* parseCurrentWaterLevelResponse(response, historical) and
\* parseCurrentFlowRateResponse(response, historical) on the raw values:
\* the first value parsed, null when there is none or it is NaN.
NullReading ==
    [isNull |-> TRUE, value |-> NaN, timestamp |-> ToISOString(0), stale |-> FALSE]

parseCurrentReading(body, values, t) ==
    IF body # "reading" \/ Len(values) = 0 THEN NullReading
    ELSE IF isNaN(parseFloat(values[1].value)) THEN NullReading
    ELSE [isNull |-> FALSE, value |-> parseFloat(values[1].value),
          timestamp |-> values[1].dateTime,
          stale |-> isDataStale(values[1].dateTime, t)]

\* The result of a read operation: thrown or returned, with the reading
\* (current) or the points (historical) returned.
ClientResult(threw, reading, points) ==
    [threw |-> threw, reading |-> reading, points |-> points]

\* Variant of ReadHistorical: the exception of the retrieval is not caught.
ReadHistorical_NoCatch(up) ==
    IF fetchWithTimeout(up.outcome).threw
       THEN ClientResult(TRUE, NullReading, << >>)
       ELSE ClientResult(FALSE, NullReading,
               parseHistoricalWaterLevelResponse(fetchWithTimeout(up.outcome).body,
                                                 up.values))

\* getHistoricalWaterLevelPoints() and getHistoricalFlowRatePoints(): the
\* points parsed, and the empty list when the retrieval throws.
ReadHistorical(up) ==
    IF fetchWithTimeout(up.outcome).threw
       THEN ClientResult(FALSE, NullReading, << >>)
       ELSE ClientResult(FALSE, NullReading,
               parseHistoricalWaterLevelResponse(fetchWithTimeout(up.outcome).body,
                                                 up.values))

\* getCurrentWaterLevel() and getCurrentFlowRate(): the current values are
\* fetched, then the historical points (upHist), then the reading is parsed;
\* null when any of it throws.
ReadCurrent(up, upHist, t) ==
    IF fetchWithTimeout(up.outcome).threw \/ ReadHistorical(upHist).threw
       THEN ClientResult(FALSE, NullReading, << >>)
       ELSE ClientResult(FALSE,
               parseCurrentReading(fetchWithTimeout(up.outcome).body, up.values, t),
               << >>)

CurrentOps == {"getCurrentWaterLevel", "getCurrentFlowRate"}

HistoricalOps == {"getHistoricalWaterLevelPoints", "getHistoricalFlowRatePoints"}

\* What the upstream source may answer: no answer in time, a network error,
\* a non-OK status, a body that is not JSON, a body without a time series,
\* or a time series of raw values.
RawValues ==
    { << "2", ".", "4", "5" >>, << "-", "0", ".", "3" >>, << "2", "8", "5", "0" >>,
      << >>, << "a", "b", "c" >>, << "N", "a", "N" >>,
      << "I", "n", "f", "i", "n", "i", "t", "y" >> }

RawPoints == { [value |-> raw, dateTime |-> ToISOString(StartTime - 900)] : raw \in RawValues }

UpstreamResponses ==
    { [outcome |-> o, values |-> << >>] :
         o \in {"timeout", "network", "http", "malformed", "empty"} }
    \cup { [outcome |-> "reading", values |-> s] : s \in Series(RawPoints) }

ClientFrame ==
    [pc |-> "idle", op |-> "none", up |-> [outcome |-> "empty", values |-> << >>],
     result |-> ClientResult(FALSE, NullReading, << >>)]

InitClient ==
    /\ now = StartTime
    /\ store = [k \in {} |-> NoResponse]
    /\ metrics = InitialMetrics
    /\ cacheLog = << >>
    /\ req = [r \in Slots |-> ClientFrame]
    /\ cfg = [caller |-> "client"]

CallReadCurrent(r) ==
    /\ r = 1
    /\ req[r].pc = "idle"
    /\ \E op \in CurrentOps, up \in UpstreamResponses, upHist \in UpstreamResponses :
          req' = [req EXCEPT ![r] = [pc |-> "done", op |-> op, up |-> up,
                                     result |-> ReadCurrent(up, upHist, now)]]
    /\ UNCHANGED << now, store, metrics, cacheLog, cfg >>

CallReadHistorical(r) ==
    /\ r = 1
    /\ req[r].pc = "idle"
    /\ \E op \in HistoricalOps, up \in UpstreamResponses :
          req' = [req EXCEPT ![r] = [pc |-> "done", op |-> op, up |-> up,
                                     result |-> ReadHistorical(up)]]
    /\ UNCHANGED << now, store, metrics, cacheLog, cfg >>

ClientReturn(r) ==
    /\ req[r].pc = "done"
    /\ req' = [req EXCEPT ![r] = ClientFrame]
    /\ UNCHANGED << now, store, metrics, cacheLog, cfg >>

NextClient ==
    \/ \E r \in Slots : CallReadCurrent(r)
    \/ \E r \in Slots : CallReadHistorical(r)
    \/ \E r \in Slots : ClientReturn(r)

SpecClient == InitClient /\ [][NextClient]_vars

IsFinite(x) == ~x.nan /\ ~x.inf

\* C24: every reading the client returns, the current reading and each point
\* of a series, has a finite value that is not NaN; raw values that fail
\* numeric parsing are dropped.
C24_ReadingsAreFinite ==
    \A r \in Slots :
        req[r].pc = "done" =>
            /\ ~req[r].result.reading.isNull => IsFinite(req[r].result.reading.value)
            /\ \A i \in 1..Len(req[r].result.points) :
                  IsFinite(req[r].result.points[i].value)

\* C29: a read operation of the client never throws; when the request fails
\* (network error, timeout, non-OK status) or the body is malformed, the
\* current operations return null and the historical ones the empty list.
C29_ClientReadsNeverThrow ==
    \A r \in Slots :
        req[r].pc = "done" =>
            /\ ~req[r].result.threw
            /\ req[r].up.outcome # "reading" =>
                  /\ req[r].op \in CurrentOps => req[r].result.reading.isNull
                  /\ req[r].op \in HistoricalOps => req[r].result.points = << >>

\* C29 witness: the historical operation returned the empty list after a
\* timeout of its request.
C29_Witness ==
    \E r \in Slots :
        /\ req[r].pc = "done"
        /\ req[r].op = "getHistoricalFlowRatePoints"
        /\ req[r].up.outcome = "timeout"
        /\ ~req[r].result.threw
        /\ req[r].result.points = << >>

----------------------------------------------------------------------------
(* Refresh headers: extractCacheHeaders and shouldBypassCache on the       *)
(* headers of a request                                                    *)

\* Values of the headers of a request; << >> is an absent header.
CacheControlValues ==
    { << >>,
      << "n", "o", "-", "c", "a", "c", "h", "e" >>,
      << "N", "o", "-", "C", "a", "c", "h", "e" >>,
      << "p", "r", "i", "v", "a", "t", "e", ",", " ", "n", "o", "-", "s", "t", "o", "r", "e" >>,
      << "m", "a", "x", "-", "a", "g", "e", "=", "0" >>,
      << "p", "u", "b", "l", "i", "c", ",", " ", "m", "a", "x", "-", "a", "g", "e", "=", "0" >>,
      << "m", "a", "x", "-", "a", "g", "e", "=", "3", "0", "0" >>,
      << "p", "u", "b", "l", "i", "c" >>,
      << "n", "o", "c", "a", "c", "h", "e" >> }

PragmaValues ==
    { << >>,
      << "n", "o", "-", "c", "a", "c", "h", "e" >>,
      << "N", "o", "-", "C", "a", "c", "h", "e" >>,
      << "n", "o", "-", "c", "a", "c", "h", "e", ",", " ", "x" >>,
      << "c", "a", "c", "h", "e" >> }

RefreshCacheValues ==
    { << >>,
      << "t", "r", "u", "e" >>,
      << "T", "R", "U", "E" >>,
      << "1" >>,
      << "y", "e", "s" >>,
      << "f", "a", "l", "s", "e" >>,
      << "0" >>,
      << "o", "n" >>,
      << "y", "e", "s", " ", "p", "l", "e", "a", "s", "e" >> }

ForceRefreshValues ==
    { << >>,
      << "t", "r", "u", "e" >>,
      << "1" >>,
      << "Y", "e", "s" >>,
      << "n", "o" >>,
      << "1", "0" >> }

RequestHeaders ==
    [cache_control : CacheControlValues, pragma : PragmaValues,
     x_refresh_cache : RefreshCacheValues, x_force_refresh : ForceRefreshValues,
     accept : { << >>, << "n", "o", "-", "c", "a", "c", "h", "e" >> }]

\* CacheService.extractCacheHeaders(request): the cache headers of the
\* request that have a value; every other header is left out.
extractCacheHeaders(request) ==
    [cache_control |-> request.cache_control, pragma |-> request.pragma,
     x_refresh_cache |-> request.x_refresh_cache,
     x_force_refresh |-> request.x_force_refresh]

HeaderFrame == [pc |-> "idle", bypass |-> FALSE]

InitHeaders ==
    /\ now = StartTime
    /\ store = [k \in {} |-> NoResponse]
    /\ metrics = InitialMetrics
    /\ cacheLog = << >>
    /\ req = [r \in Slots |-> HeaderFrame]
    /\ cfg \in [caller : {"headers"}, request : RequestHeaders]

\* createOptionsFromRequest(request), then the bypass decision of a read
\* made with these options.
CheckHeaders(r) ==
    /\ r = 1
    /\ req[r].pc = "idle"
    /\ req' = [req EXCEPT ![r] =
                 [pc |-> "checked",
                  bypass |-> shouldBypassCache(
                                [NoOptions EXCEPT !.requestHeaders =
                                    extractCacheHeaders(cfg.request)])]]
    /\ UNCHANGED << now, store, metrics, cacheLog, cfg >>

HeadersReturn(r) ==
    /\ req[r].pc = "checked"
    /\ req' = [req EXCEPT ![r] = HeaderFrame]
    /\ UNCHANGED << now, store, metrics, cacheLog, cfg >>

NextHeaders ==
    \/ \E r \in Slots : CheckHeaders(r)
    \/ \E r \in Slots : HeadersReturn(r)

SpecHeaders == InitHeaders /\ [][NextHeaders]_vars

\* The values explored that the claim makes a refresh signal, letter case
\* aside: a cache-control that contains no-cache, no-store or max-age=0, a
\* pragma that is no-cache, a custom header that is true, 1 or yes.
SignalCacheControl ==
    { << "n", "o", "-", "c", "a", "c", "h", "e" >>,
      << "N", "o", "-", "C", "a", "c", "h", "e" >>,
      << "p", "r", "i", "v", "a", "t", "e", ",", " ", "n", "o", "-", "s", "t", "o", "r", "e" >>,
      << "m", "a", "x", "-", "a", "g", "e", "=", "0" >>,
      << "p", "u", "b", "l", "i", "c", ",", " ", "m", "a", "x", "-", "a", "g", "e", "=", "0" >> }

SignalPragma == { << "n", "o", "-", "c", "a", "c", "h", "e" >>,
                << "N", "o", "-", "C", "a", "c", "h", "e" >> }

SignalCustom ==
    { << "t", "r", "u", "e" >>,
      << "T", "R", "U", "E" >>,
      << "1" >>,
      << "y", "e", "s" >>,
      << "Y", "e", "s" >> }

\* C26: the headers of a request force a bypass exactly when cache-control
\* contains no-cache, no-store or max-age=0, or pragma is no-cache, or
\* x-refresh-cache or x-force-refresh is true, 1 or yes; absent headers and
\* any other value force none.
C26_HeadersForceBypass ==
    \A r \in Slots :
        req[r].pc = "checked" =>
            (req[r].bypass <=>
                \/ cfg.request.cache_control \in SignalCacheControl
                \/ cfg.request.pragma \in SignalPragma
                \/ cfg.request.x_refresh_cache \in SignalCustom
                \/ cfg.request.x_force_refresh \in SignalCustom)

\* C26 witness: a request whose only refresh signal is x-refresh-cache: yes,
\* beside a cache-control and a pragma that are no signal, was decided a
\* bypass.
C26_Witness ==
    \E r \in Slots :
        /\ req[r].pc = "checked"
        /\ req[r].bypass
        /\ cfg.request.cache_control = << "m", "a", "x", "-", "a", "g", "e", "=", "3", "0", "0" >>
        /\ cfg.request.pragma = << "n", "o", "-", "c", "a", "c", "h", "e", ",", " ", "x" >>
        /\ cfg.request.x_refresh_cache = << "y", "e", "s" >>
        /\ cfg.request.x_force_refresh = << "n", "o" >>

----------------------------------------------------------------------------
(* The log at capacity: get, set and delete on a service whose log already *)
(* holds nearly maxLogEntries entries of earlier reads                     *)

LogRoom == 1

MaxLogCalls == 2

LogOptions == [NoOptions EXCEPT !.ttl = 60]

\* The log after n earlier misses, one per five minutes, the oldest first.
PriorLog(n) ==
    [j \in 1..n |->
        [action |-> "MISS",
         cacheKey |-> generateCacheKey(UrlStation, LogOptions,
                                       StartTime - 300 * (n - j + 1)),
         error |-> ""]]

LogConfigs ==
    [caller : {"log"}, url : {UrlStation}, base : {LogOptions}, maxInFlight : {1},
     prior : (maxLogEntries - LogRoom)..maxLogEntries, calls : {0}]

InitLog ==
    /\ now = StartTime
    /\ store = [k \in {} |-> NoResponse]
    /\ metrics = InitialMetrics
    /\ cfg \in LogConfigs
    /\ cacheLog = PriorLog(cfg.prior)
    /\ req = [r \in Slots |-> IdleFrame]

CanStartLogged(r) ==
    /\ cfg.caller = "log"
    /\ r = 1
    /\ \A q \in Slots : req[q].pc = "idle"
    /\ cfg.calls < MaxLogCalls

\* cacheService.get(url, options)
LoggedGet(r) ==
    /\ CanStartLogged(r)
    /\ \E bypass \in BypassChoices :
          Becomes(r, GetPrefix([Ctx(r) EXCEPT
                        !.f = NewFrame("get", cfg.url, CallOptions(bypass, ""), "none")],
                     now))
    /\ cfg' = [cfg EXCEPT !.calls = @ + 1]
    /\ UNCHANGED << now, store >>

\* cacheService.set(url, data, options)
LoggedSet(r) ==
    /\ CanStartLogged(r)
    /\ \E data \in Payloads :
          Becomes(r, SetPrefix([Ctx(r) EXCEPT
                        !.f = [NewFrame("set", cfg.url, cfg.base, "none")
                                  EXCEPT !.arg = data]],
                     data, now))
    /\ cfg' = [cfg EXCEPT !.calls = @ + 1]
    /\ UNCHANGED << now, store >>

\* cacheService.delete(url, options)
LoggedDelete(r) ==
    /\ CanStartLogged(r)
    /\ Becomes(r, [Ctx(r) EXCEPT
                      !.f = [NewFrame("delete", cfg.url, cfg.base, "none")
                                EXCEPT !.pc = "del",
                                       !.ckey = generateCacheKey(cfg.url, cfg.base, now),
                                       !.nDelete = 1]])
    /\ cfg' = [cfg EXCEPT !.calls = @ + 1]
    /\ UNCHANGED << now, store >>

NextLog ==
    \/ \E r \in Slots : LoggedGet(r)
    \/ \E r \in Slots : LoggedSet(r)
    \/ \E r \in Slots : LoggedDelete(r)
    \/ \E r \in Slots : StepMatch(r)
    \/ \E r \in Slots : StepInvalidate(r)
    \/ \E r \in Slots : StepPut(r)
    \/ \E r \in Slots : StepDelete(r)
    \/ \E r \in Slots : Return(r)

SpecLog == InitLog /\ [][NextLog]_vars

\* getCacheLog(): a copy of the log.
getCacheLog == cacheLog

\* C27: the log never holds more than 1000 entries; a step in which a call
\* finishes adds at least one entry; and every step keeps the entries in
\* order: what it adds comes last, and when the log is full exactly as many
\* of the oldest entries leave as new ones enter.
C27_LogBoundedDropsOldest ==
    [][ /\ Len(cacheLog') <= 1000
        /\ \E added \in 0..3 :
              /\ (\E r \in Slots : req[r].pc # "done" /\ req'[r].pc = "done")
                    => added >= 1
              /\ Len(cacheLog') = Min(Len(cacheLog) + added, 1000)
              /\ \A i \in 1..(Len(cacheLog') - added) :
                    cacheLog'[i] = cacheLog[i + (Len(cacheLog) + added - Len(cacheLog'))]
      ]_vars

\* C27 witness: the log was full before the calls, two of them have logged
\* one entry each, and the log holds 1000 entries: the oldest two have left,
\* the third is now the first, and the last entry is one of the calls.
C27_Witness ==
    /\ cfg.caller = "log"
    /\ cfg.prior = 1000
    /\ cfg.calls = 2
    /\ Len(getCacheLog) = 1000
    /\ getCacheLog[1] = PriorLog(1000)[3]
    /\ getCacheLog[1000].action # "MISS"

----------------------------------------------------------------------------
(* Logging and counting of get, set and delete (checked on the direct      *)
(* calls of Spec)                                                          *)

\* C28: a finished get, set or delete has appended at least one log entry,
\* and a finished get has incremented the counter of its outcome: bypasses
\* and invalidations when it bypassed the cache, errors when reading the
\* cache or the cached body failed, misses when nothing was cached,
\* staleEntries when the entry read was past its TTL, hits otherwise.
C28_CallsLogAndCount ==
    \A r \in Slots :
        /\ (req[r].pc = "done" /\ req[r].op \in {"get", "set", "delete"})
              => Len(cacheLog) > req[r].log0
        /\ OpDone(r, "get") =>
              IF shouldBypassCache(req[r].opts)
                 THEN /\ metrics.bypasses = req[r].metrics0.bypasses + 1
                      /\ metrics.invalidations = req[r].metrics0.invalidations + 1
              ELSE IF ~req[r].seen.present /\ req[r].cacheOpFailed
                 THEN metrics.errors = req[r].metrics0.errors + 1
              ELSE IF ~req[r].seen.present
                 THEN metrics.misses = req[r].metrics0.misses + 1
              ELSE IF ~Unexpired(req[r].seen, req[r].seenAt)
                 THEN metrics.staleEntries = req[r].metrics0.staleEntries + 1
              ELSE /\ metrics.hits = req[r].metrics0.hits + 1
                   /\ req[r].serializeFailed =>
                         metrics.errors = req[r].metrics0.errors + 1

\* C28 witness: a get read an entry past its TTL, counted one stale eviction
\* and logged it, without counting a miss.
C28_Witness ==
    \E r \in Slots :
        /\ OpDone(r, "get")
        /\ req[r].seen.present
        /\ ~Unexpired(req[r].seen, req[r].seenAt)
        /\ metrics.staleEntries = req[r].metrics0.staleEntries + 1
        /\ metrics.misses = req[r].metrics0.misses
        /\ "STALE" \in LoggedSince(r)

----------------------------------------------------------------------------
(* get_potomac_conditions: both tools are called and their texts read back *)

\* One source in the processed data: absent (undefined) when nothing could
\* be extracted from the text of its tool.
NoSource == [defined |-> FALSE, available |-> FALSE, ageMinutes |-> 0, stale |-> FALSE]

\* The tool returned (it never throws): its text is read back.
ProcessSource(tool, response) ==
    IF ExtractFromText(tool, response.content[1]).isNull THEN NoSource
    ELSE [defined |-> TRUE, available |-> TRUE,
          ageMinutes |-> ExtractFromText(tool, response.content[1]).ageMinutes,
          stale |-> ExtractFromText(tool, response.content[1]).stale]

AvailableCount(waterLevel, flowRate) ==
    (IF waterLevel.defined /\ waterLevel.available THEN 1 ELSE 0)
        + (IF flowRate.defined /\ flowRate.available THEN 1 ELSE 0)

DataCompleteness(availableCount) ==
    IF availableCount = 2 THEN "complete"
    ELSE IF availableCount = 1 THEN "partial"
    ELSE "minimal"

\* The ages, in minutes, of the sources that are available.
AgeData(waterLevel, flowRate) ==
    (IF waterLevel.defined /\ waterLevel.available THEN << waterLevel.ageMinutes >>
     ELSE << >>)
        \o (IF flowRate.defined /\ flowRate.available THEN << flowRate.ageMinutes >>
            ELSE << >>)

StaleCount(ageData) ==
    Cardinality({ i \in 1..Len(ageData) : ageData[i] > ConditionsStaleMinutes })

\* processedData.overallStaleness: 'stale' unless a source is available.
OverallStaleness(ageData) ==
    IF Len(ageData) = 0 THEN "stale"
    ELSE IF StaleCount(ageData) = 0 THEN "fresh"
    ELSE IF StaleCount(ageData) = Len(ageData) THEN "stale"
    ELSE "mixed"

\* fetchCombinedDataDirectly(request), from the responses of the two tools.
fetchCombinedDataDirectly(waterLevelResponse, flowRateResponse) ==
    [waterLevel |-> ProcessSource("getPotomacGageDepth", waterLevelResponse),
     flowRate |-> ProcessSource("getPotomacFlow", flowRateResponse),
     overallStaleness |->
        OverallStaleness(AgeData(
            ProcessSource("getPotomacGageDepth", waterLevelResponse),
            ProcessSource("getPotomacFlow", flowRateResponse))),
     dataCompleteness |->
        DataCompleteness(AvailableCount(
            ProcessSource("getPotomacGageDepth", waterLevelResponse),
            ProcessSource("getPotomacFlow", flowRateResponse)))]

\* The runs: what current reading, of what age, each of the two stations
\* has, if any.
SourceReadings(tool) ==
    { NoReading }
    \cup { Reading(Num(v), StartTime - age) : v \in CurrentValues(tool), age \in AgeChoices }

ConditionsConfigs ==
    [caller : {"conditions"},
     level : SourceReadings("getPotomacGageDepth"),
     flow : SourceReadings("getPotomacFlow")]

ConditionsFrame ==
    [pc |-> "idle",
     data |-> [waterLevel |-> NoSource, flowRate |-> NoSource,
               overallStaleness |-> "stale",
               dataCompleteness |-> "minimal"]]

InitConditions ==
    /\ now = StartTime
    /\ store = [k \in {} |-> NoResponse]
    /\ metrics = InitialMetrics
    /\ cacheLog = << >>
    /\ req = [r \in Slots |-> ConditionsFrame]
    /\ cfg \in ConditionsConfigs

\* getPotomacConditions(params, request) on a cold cache: the combined data
\* are fetched from the two tools.
GetPotomacConditions(r) ==
    /\ r = 1
    /\ req[r].pc = "idle"
    /\ req' = [req EXCEPT ![r] =
                 [pc |-> "combined",
                  data |-> fetchCombinedDataDirectly(
                              ToolResponse("getPotomacGageDepth", cfg.level,
                                           << >>, << >>, now),
                              ToolResponse("getPotomacFlow", cfg.flow,
                                           << >>, << >>, now))]]
    /\ UNCHANGED << now, store, metrics, cacheLog, cfg >>

ConditionsReturn(r) ==
    /\ req[r].pc = "combined"
    /\ req' = [req EXCEPT ![r] = ConditionsFrame]
    /\ UNCHANGED << now, store, metrics, cacheLog, cfg >>

NextConditions ==
    \/ \E r \in Slots : GetPotomacConditions(r)
    \/ \E r \in Slots : ConditionsReturn(r)

SpecConditions == InitConditions /\ [][NextConditions]_vars

\* C30: data_completeness is complete exactly when both stations have a
\* current reading, partial exactly when one has, minimal exactly when
\* neither has; and the data of a station that has a reading are returned
\* whatever happened to the other.
C30_CompletenessCountsSources ==
    \A r \in Slots :
        req[r].pc = "combined" =>
            /\ req[r].data.dataCompleteness =
                  (IF ~cfg.level.isNull /\ ~cfg.flow.isNull THEN "complete"
                   ELSE IF ~cfg.level.isNull \/ ~cfg.flow.isNull THEN "partial"
                   ELSE "minimal")
            /\ ~cfg.level.isNull => req[r].data.waterLevel.available
            /\ ~cfg.flow.isNull => req[r].data.flowRate.available

\* The flag "stale" of the snapshot that the source's own tool computed.
ToolFlagsStale(tool, reading) ==
    ToolResponse(tool, reading, << >>, << >>, now).snapshot.stale

\* The sources that the combined data hold as available, with the flag of
\* their tool.
AvailableFlags(r) ==
    (IF req[r].data.waterLevel.available
        THEN << ToolFlagsStale("getPotomacGageDepth", cfg.level) >> ELSE << >>)
    \o (IF req[r].data.flowRate.available
        THEN << ToolFlagsStale("getPotomacFlow", cfg.flow) >> ELSE << >>)

\* C31: with a source available, the overall staleness is fresh exactly
\* when the tool of no available source flags its reading stale, stale
\* exactly when the tool of every available source does, and mixed
\* otherwise.
C31_OverallStalenessFollowsTools ==
    \A r \in Slots :
        (req[r].pc = "combined" /\ Len(AvailableFlags(r)) > 0) =>
            req[r].data.overallStaleness =
                (IF \A i \in 1..Len(AvailableFlags(r)) : ~AvailableFlags(r)[i] THEN "fresh"
                 ELSE IF \A i \in 1..Len(AvailableFlags(r)) : AvailableFlags(r)[i] THEN "stale"
                 ELSE "mixed")

----------------------------------------------------------------------------
(* fetchWithFallback without a strategy, against the strategy 'stale' *)

\* The same call, made with fallbackStrategy 'stale'.
WithStale(c) == [c EXCEPT !.f.opts.fallbackStrategy = "stale"]

\* The contexts the call of context c can be in after its next step at
\* instant t: one for each way its pending await can settle.
Settled(c, t) ==
    CASE c.f.pc = "match" ->
            { GetCatch([c EXCEPT !.f.cacheOpFailed = TRUE], t),
              GetAfterMatch(c, Lookup(c.f.ckey), t) }
      [] c.f.pc = "evict" ->
            { ReturnFromGet(logCacheActivity(
                                Count(DeleteResult(c, failed, t), "staleEntries"),
                                "STALE", c.f.ckey, ""), Null) : failed \in BOOLEAN }
      [] c.f.pc = "invalidate" ->
            { ReturnFromGet(logCacheActivity(
                                Count(DeleteResult(c, failed, t), "invalidations"),
                                "INVALIDATE", c.f.ckey, ""), Null) : failed \in BOOLEAN }
      [] c.f.pc = "fetch" -> { AfterFetch(c, res, t) : res \in GenericFetchResults }
      [] c.f.pc = "put" ->
            { SetReturn(SetResult(c, failed, t), ~ failed) : failed \in BOOLEAN }
      [] c.f.pc = "staleRead" ->
            { AfterStaleRead(c, failed, Lookup(c.f.ckey), t) : failed \in BOOLEAN }
      [] OTHER -> {}

\* The contexts a new call of fetchWithFallback with the given strategy can
\* start in.
Started(r, strategy) ==
    { FetchWithFallbackPrefix([Ctx(r) EXCEPT
            !.f = NewFrame("fetchWithFallback", cfg.url,
                           CallOptions(bypass, strategy), "generic")], now)
        : bypass \in BypassChoices }

\* C32: a call of fetchWithFallback without a strategy starts as, and at
\* every step moves as, the same call with the strategy 'stale': whatever
\* the cache holds and however the cache operations and the fetch function
\* settle, the two end in the same frame, counters and log, up to the
\* strategy the options carry.
C32_DefaultStrategyIsStale ==
    \A r \in Slots :
        /\ CanStartDirect(r) =>
              { WithStale(c) : c \in Started(r, "") } = Started(r, "stale")
        /\ (req[r].op = "fetchWithFallback" /\ req[r].fn = "generic"
               /\ req[r].opts.fallbackStrategy = "") =>
              { WithStale(c) : c \in Settled(Ctx(r), now) }
                  = Settled(WithStale(Ctx(r)), now)

\* A call without a strategy whose fetch failed, whose stale read found
\* nothing usable and which returned the emergency placeholder.
C32_Witness ==
    \E r \in Slots :
        /\ req[r].pc = "done"
        /\ req[r].op = "fetchWithFallback"
        /\ req[r].opts.fallbackStrategy = ""
        /\ req[r].nStale = 1
        /\ req[r].ret.state = "return"
        /\ req[r].ret.source = "emergency"

----------------------------------------------------------------------------
(* Further properties of fetchWithFallback *)

\* C33: a call of fetchWithFallback that returns source 'stale' reports as
\* age the seconds between the storing of the entry its stale read returned
\* and that read, and this age is at most the maximum stale age in effect.
C33_StaleAgeIsTrueAge ==
    \A r \in Slots :
        (FwfDone(r) /\ req[r].ret.state = "return" /\ req[r].ret.source = "stale") =>
            /\ req[r].staleSeen.present
            /\ req[r].ret.cacheAge = TrueAge(req[r].staleSeen, req[r].staleAt)
            /\ req[r].ret.cacheAge <= MaxStaleOf(req[r].opts)

\* The calls of fetchWithFallback on one identity, after entries were set,
\* with every cache operation and the fetch function settling eventually.
InitLive ==
    /\ Init
    /\ cfg.caller = "direct"
    /\ cfg.url = UrlStation
    /\ cfg.base.maxStaleAge = HugeStaleAge

NextLive ==
    \/ \E r \in Slots : CallSet(r)
    \/ \E r \in Slots : CallFetchWithFallback(r)
    \/ \E r \in Slots : StepMatch(r)
    \/ \E r \in Slots : StepEvict(r)
    \/ \E r \in Slots : StepFetch(r)
    \/ \E r \in Slots : StepPut(r)
    \/ \E r \in Slots : StepStaleRead(r)
    \/ \E r \in Slots : Return(r)
    \/ ResetMetrics
    \/ Tick

\* The pending operation of the call in progress settles: cache.match,
\* cache.delete, fetchFn or cache.put.
Settle ==
    \E r \in Slots :
        \/ StepMatch(r)
        \/ StepEvict(r)
        \/ StepFetch(r)
        \/ StepPut(r)
        \/ StepStaleRead(r)

\* Settle is enabled exactly when an operation of a call is pending.
SettlePending ==
    \E r \in Slots : req[r].pc \in {"match", "evict", "fetch", "put", "staleRead"}

\* cache.match, cache.put, cache.delete and fetchFn terminate (one call is
\* in progress at a time): weak fairness of Settle, WF_vars(Settle), with
\* ENABLED <<Settle>>_vars written as the state predicate it is equal to.
OperationsTerminate == []<>(~ SettlePending) \/ []<><<Settle>>_vars

SpecLive == InitLive /\ [][NextLive]_vars /\ OperationsTerminate

FwfRunning(r) == req[r].op = "fetchWithFallback" /\ req[r].pc \notin {"idle", "done"}

\* The one outcome of a finished call: a payload from one of the four
\* sources, or the error of the fetch function.
OneOutcome(r) ==
    \/ /\ req[r].ret.state = "return"
       /\ req[r].ret.source \in {"cache", "fresh", "stale", "emergency"}
    \/ /\ req[r].ret.state = "throw"
       /\ req[r].fetched.state = "rejected"
       /\ req[r].ret.error = req[r].fetched.error

StepsAtMostOnce(r) ==
    /\ req[r].nRead <= 1
    /\ req[r].nFetch <= 1
    /\ req[r].nStale <= 1
    /\ req[r].nEmergency <= 1

\* C34: when the cache operations and the fetch function terminate, every
\* call of fetchWithFallback ends, with one outcome among cache, fresh,
\* stale, emergency and the error of the fetch function, after at most one
\* cache read, one invocation of the fetch function, one stale read and
\* one emergency synthesis.
C34_TerminatesEachStepOnce ==
    /\ [](\A r \in Slots :
            /\ req[r].op = "fetchWithFallback" => StepsAtMostOnce(r)
            /\ FwfDone(r) => OneOutcome(r))
    /\ \A r \in Slots : FwfRunning(r) ~> FwfDone(r)

\* A call that went through every step once: cache read, fetch function,
\* stale read, emergency synthesis.
C34_Witness ==
    \E r \in Slots :
        /\ FwfDone(r)
        /\ req[r].nRead = 1 /\ req[r].nFetch = 1
        /\ req[r].nStale = 1 /\ req[r].nEmergency = 1
        /\ req[r].ret.source = "emergency"

\* The keys whose entry a step creates or replaces.
Written == { k \in DOMAIN store' : k \notin DOMAIN store \/ store'[k] # store[k] }

\* C35: fetchWithFallback hands an entry to the cache only once its fetch
\* function has resolved, and the entry holds the value it resolved to: a
\* call whose fetch function was rejected, and a call that returns stale or
\* emergency data, has put nothing, and every entry created or replaced by
\* a call of fetchWithFallback is the response built from the fetched value.
C35_WritesOnlyFetchedPayload ==
    /\ [](\A r \in Slots :
            req[r].op = "fetchWithFallback" =>
                /\ req[r].fetched.state # "resolved" => req[r].nPut = 0
                /\ req[r].ret.source \in {"stale", "emergency"} => req[r].nPut = 0)
    /\ [][\A k \in Written :
            \E r \in Slots :
                /\ req[r].pc = "put"
                /\ req[r].ckey = k
                /\ req[r].op = "fetchWithFallback" =>
                      /\ req[r].fetched.state = "resolved"
                      /\ store'[k].present
                      /\ store'[k].payload = req[r].fetched.value
                      /\ store'[k].body = JSONStringify(req[r].fetched.value)
          ]_vars

\* A call that fetched a reading, stored it and returned it as fresh.
C35_Witness ==
    \E r \in Slots :
        /\ FwfDone(r)
        /\ req[r].fetched.state = "resolved"
        /\ req[r].fetched.value # Null
        /\ req[r].nPut = 1
        /\ req[r].lastPut = "ok"
        /\ req[r].ret.source = "fresh"
        /\ Lookup(req[r].ckey).payload = req[r].fetched.value

----------------------------------------------------------------------------
(* The emergency placeholder against what the fetch functions return *)

\* USGS request URLs: a discharge request, and one without parameter code.
UrlFlowStation == << "s", "i", "t", "e", "s", "=", "0", "1", "6", "4", "6", "5", "0", "0", "&", "p", "a", "r", "a", "m", "e", "t", "e", "r", "C", "d", "=", "0", "0", "0", "6", "0" >>

UrlSitesOnly == << "s", "i", "t", "e", "s", "=", "0", "1", "6", "4", "6", "5", "0", "0" >>

EmergencyUrls == {UrlStation, UrlFlowStation, UrlSitesOnly}

\* The shape of a payload: a list, or an object with these properties.
ObjectOf(fields) == [isArray |-> FALSE, fields |-> fields]

ArrayShape == [isArray |-> TRUE, fields |-> {}]

\* USGSAPIResponse
UpstreamShape == ObjectOf({"name", "declaredType", "scope", "value"})

\* The shape of the placeholder createEmergencyFallback builds.
EmergencyShape(data) ==
    IF data \in {"emergency-water-level", "emergency-flow-rate"} THEN UpstreamShape
    ELSE ObjectOf({"error", "emergency", "station", "timestamp"})

\* The fetch functions handed to the cache layer, and the shape of what
\* each resolves to: WaterLevelData, FlowRateData, a list of points, or the
\* upstream response itself.
FetchFunctions ==
    {"getCurrentWaterLevel", "getCurrentFlowRate", "getHistoricalWaterLevelPoints",
     "getHistoricalFlowRatePoints", "fetchUpstream"}

SuccessShape(fn) ==
    CASE fn = "getCurrentWaterLevel" ->
            ObjectOf({"navd88_ft", "wmlw_ft", "timestamp", "seven_day_min_ft",
                      "seven_day_max_ft", "stale"})
      [] fn = "getCurrentFlowRate" ->
            ObjectOf({"discharge_cfs", "timestamp", "seven_day_min_cfs",
                      "seven_day_max_cfs", "stale"})
      [] fn = "fetchUpstream" -> UpstreamShape
      [] OTHER -> ArrayShape

\* The tool category a fetch function belongs to ("" : any).
CategoryOf(fn) ==
    CASE fn \in {"getCurrentWaterLevel", "getHistoricalWaterLevelPoints"} -> "water-level"
      [] fn \in {"getCurrentFlowRate", "getHistoricalFlowRatePoints"} -> "flow-rate"
      [] OTHER -> ""

\* The properties on which the caller calls a method when it handles the
\* payload as a fresh one: navd88_ft.toFixed(1), discharge_cfs
\* .toLocaleString().  Lists are tested with Array.isArray and the upstream
\* response is read with optional chaining: neither can throw.
Dereferenced(fn) ==
    CASE fn = "getCurrentWaterLevel" -> {"navd88_ft"}
      [] fn = "getCurrentFlowRate" -> {"discharge_cfs"}
      [] OTHER -> {}

\* Handling the payload throws a TypeError.
ProcessingThrows(fn, shape) == ~ (Dereferenced(fn) \subseteq shape.fields)

EmergencyConfigs ==
    [caller : {"emergency"}, url : EmergencyUrls,
     toolType : {"", "water-level", "flow-rate", "combined"},
     fn : FetchFunctions]

EmergencyFrame ==
    [pc |-> "idle", data |-> Null, shape |-> ObjectOf({}), threw |-> FALSE]

InitEmergency ==
    /\ now = StartTime
    /\ store = [k \in {} |-> NoResponse]
    /\ metrics = InitialMetrics
    /\ cacheLog = << >>
    /\ req = [r \in Slots |-> EmergencyFrame]
    /\ cfg \in EmergencyConfigs

\* createEmergencyFallback(url, options) after the fetch function failed.
CreateEmergencyFallback(r) ==
    /\ r = 1
    /\ req[r].pc = "idle"
    /\ MatchesLitDigits(cfg.url, SitesEq)
    /\ req' = [req EXCEPT ![r] =
                 [EmergencyFrame EXCEPT
                    !.pc = "emergency",
                    !.data = EmergencyData(cfg.url,
                                [NoOptions EXCEPT !.toolType = cfg.toolType]),
                    !.shape = EmergencyShape(
                                EmergencyData(cfg.url,
                                   [NoOptions EXCEPT !.toolType = cfg.toolType]))]]
    /\ UNCHANGED << now, store, metrics, cacheLog, cfg >>

\* The caller handles the payload as it handles a fresh one.
ProcessAsFresh(r) ==
    /\ req[r].pc = "emergency"
    /\ req' = [req EXCEPT ![r].pc = "processed",
                          ![r].threw = ProcessingThrows(cfg.fn, req[r].shape)]
    /\ UNCHANGED << now, store, metrics, cacheLog, cfg >>

EmergencyReturn(r) ==
    /\ req[r].pc = "processed"
    /\ req' = [req EXCEPT ![r] = EmergencyFrame]
    /\ UNCHANGED << now, store, metrics, cacheLog, cfg >>

NextEmergency ==
    \/ \E r \in Slots : CreateEmergencyFallback(r)
    \/ \E r \in Slots : ProcessAsFresh(r)
    \/ \E r \in Slots : EmergencyReturn(r)

SpecEmergency == InitEmergency /\ [][NextEmergency]_vars

\* C36: the emergency placeholder built for a call of the water-level or
\* of the flow-rate category has the shape of what the call's fetch
\* function resolves to for that category, and the caller handles it as a
\* fresh payload without an exception.
C36_EmergencyHasFreshShape ==
    \A r \in Slots :
        (req[r].pc \in {"emergency", "processed"}
            /\ cfg.toolType \in {"water-level", "flow-rate"}
            /\ CategoryOf(cfg.fn) \in {"", cfg.toolType}) =>
                /\ req[r].shape = SuccessShape(cfg.fn)
                /\ ~ req[r].threw

----------------------------------------------------------------------------
(* Eviction by get under concurrent requests *)

\* How long before the concurrent calls the entry under their key was set.
PriorAges == {0, 120}

\* Two concurrent calls on a key under which an entry was set before.
InitRace ==
    /\ now = StartTime
    /\ cfg \in ConcurrentConfigs
    /\ \E age \in PriorAges :
          store = [k \in {generateCacheKey(cfg.url, cfg.base, StartTime - age)} |->
                      createCacheResponse("reading-A", cfg.base, StartTime - age)]
    /\ metrics = InitialMetrics
    /\ cacheLog = << >>
    /\ req = [r \in Slots |-> IdleFrame]

NextRace ==
    \/ \E r \in Slots : CallFetchWithFallbackConcurrently(r)
    \/ \E r \in Slots : StepMatch(r)
    \/ \E r \in Slots : StepEvict(r)
    \/ \E r \in Slots : StepFetch(r)
    \/ \E r \in Slots : StepPut(r)
    \/ \E r \in Slots : StepStaleRead(r)
    \/ \E r \in Slots : Return(r)

SpecRace == InitRace /\ [][NextRace]_vars

\* C37: whatever the interleaving of concurrent requests on one key, the
\* entry that the eviction inside a get removes is expired at the moment it
\* is removed.
C37_EvictionRemovesOnlyExpired ==
    [][\A r \in Slots :
          (req[r].pc = "evict" /\ req'[r].pc # "evict") =>
              \A k \in DOMAIN store \ DOMAIN store' : ~ Unexpired(store[k], now)
      ]_vars

----------------------------------------------------------------------------
(* The hit counter *)

\* C38: a get that returned null to its caller has counted no hit and
\* logged no HIT; a get that returned a payload has counted one hit.
C38_HitsCountReturnedPayloads ==
    \A r \in Slots :
        OpDone(r, "get") =>
            IF req[r].ret.data = Null
               THEN /\ metrics.hits = req[r].metrics0.hits
                    /\ "HIT" \notin LoggedSince(r)
            ELSE /\ metrics.hits = req[r].metrics0.hits + 1
                 /\ "HIT" \in LoggedSince(r)

----------------------------------------------------------------------------
(* The trend text of the tools *)

\* C39: in a response of the flow tool that reports a trend, the change
\* description reads "stable from 90 min ago" exactly when the trend
\* direction is stable.  (Discharge readings are whole numbers of CFS, so
\* the differences of the model are those the code computes; differences of
\* hundredths of a foot are subject to binary rounding in the code.)
C39_StableTextIffStableDirection ==
    \A r \in Slots :
        (req[r].pc \in {"snapshot", "extracted"} /\ cfg.tool = "getPotomacFlow"
            /\ req[r].response.hasSnapshot
            /\ req[r].response.content[1].trendShown) =>
                (req[r].response.content[1].changeText = "stable from 90 min ago"
                    <=> req[r].response.content[1].direction = "stable")

----------------------------------------------------------------------------
(* Cache keys of requests of different categories *)

\* The values CacheOptions allows for toolType and dataType ("" when absent)
\* and the suffixes drawn, one of them holding the separator.
ToolTypes == {"", "water-level", "flow-rate", "combined-conditions"}
DataTypes == {"", "current", "historical"}
KeySuffixes == {"", "v2", "current", "historical:v2"}

\* suffix.split(':') for the suffixes drawn.
ColonFields(suffix) ==
    IF suffix = "historical:v2" THEN << "historical", "v2" >> ELSE << suffix >>

\* parts.join(':'), as the sequence of the colon-separated fields of the
\* joined string: two joined strings are equal exactly when their fields are.
\* The prefix, the categories, the bucket and the hash hold no colon.
JoinedKey(parts) ==
    SubSeq(parts, 1, 5)
        \o (IF Len(parts) > 5 THEN ColonFields(parts[6]) ELSE << >>)

\* The instants drawn: one step of PairTickSeconds, across the boundary of
\* the five-minute bucket of StartTime.
PairTickSeconds == 200
PairMaxElapsed == 200

PairOptions ==
    { [NoOptions EXCEPT !.toolType = tt, !.dataType = dt, !.keySuffix = sfx] :
        tt \in ToolTypes, dt \in DataTypes, sfx \in KeySuffixes }

InitPair ==
    /\ now = StartTime
    /\ store = [k \in {} |-> NoResponse]
    /\ metrics = InitialMetrics
    /\ cacheLog = << >>
    /\ req = [r \in Slots |-> IdleFrame]
    /\ cfg \in [caller : {"pair"}, url : {UrlStation}, base : {NoOptions}, maxInFlight : {1}]

\* this.generateCacheKey(identity, options) for a request of any category.
GenerateKeyFor(r) ==
    /\ cfg.caller = "pair"
    /\ req[r].pc = "idle"
    /\ \A q \in Slots : q < r => req[q].pc # "idle"
    /\ \E url \in URLs, options \in PairOptions :
          req' = [req EXCEPT ![r] =
                    [NewFrame("generateCacheKey", url, options, "none")
                        EXCEPT !.pc = "key",
                               !.ckey = generateCacheKey(url, options, now),
                               !.seenAt = now]]
    /\ UNCHANGED << now, store, metrics, cacheLog, cfg >>

PairTick ==
    /\ cfg.caller = "pair"
    /\ now + PairTickSeconds <= StartTime + PairMaxElapsed
    /\ now' = now + PairTickSeconds
    /\ UNCHANGED << store, metrics, cacheLog, req, cfg >>

NextPair ==
    \/ \E r \in Slots : GenerateKeyFor(r)
    \/ PairTick

SpecPair == InitPair /\ [][NextPair]_vars

\* The categories a request is keyed under.
ToolCategory(options) == IF options.toolType # "" THEN options.toolType ELSE "generic"
DataCategory(options) == IF options.dataType # "" THEN options.dataType ELSE "unknown"

\* C40: two requests that differ in tool category or in data category have
\* different cache keys, whatever their identities, suffixes and instants.
C40_CategoriesNeverShareKey ==
    \A r1, r2 \in Slots :
        (req[r1].pc = "key" /\ req[r2].pc = "key"
            /\ (ToolCategory(req[r1].opts) # ToolCategory(req[r2].opts)
                   \/ DataCategory(req[r1].opts) # DataCategory(req[r2].opts))) =>
                JoinedKey(req[r1].ckey) # JoinedKey(req[r2].ckey)

\* C40 witness: two requests of one identity and one instant, one of them
\* without a data type and the other 'current', the first with the suffix
\* that holds the separator, have both been keyed.
C40_Witness ==
    /\ req[1].pc = "key" /\ req[2].pc = "key"
    /\ req[1].url = req[2].url /\ req[1].seenAt = req[2].seenAt
    /\ req[1].opts.toolType = req[2].opts.toolType
    /\ req[1].opts.dataType = "" /\ req[2].opts.dataType = "current"
    /\ req[1].opts.keySuffix = "historical:v2"

============================================================================
